---- MODULE Spec2Model ----
(***************************************************************************)
(* A model of vdi-rs: the VDI sparse-block reader (src/src/lib.rs), the    *)
(* byte-range slice (src/src/slice.rs) and the ext4 read path              *)
(* (src/ext4/src/lib.rs).                                                  *)
(*                                                                         *)
(* Bytes are modelled by their provenance: a byte read from the backing    *)
(* file at offset o is FileByte(o), a zero-filled byte is ZeroByte, and a  *)
(* byte of the caller's buffer that no one wrote is Stale.  Two reads      *)
(* return the same bytes on every image iff they return the same           *)
(* provenance sequence.                                                    *)
(***************************************************************************)
EXTENDS Integers, Sequences, FiniteSets, TLC

VARIABLES
    \* ---- VDI layer (src/src/lib.rs)
    file,        \* the backing file: header fields, raw allocation table, length
    disk,        \* the VdiDisk built by open: <<>> before/without one, else <<d>>
    pc,          \* "closed" | "failed" | "idle" | "loop" | "done" | "panic"
    call,        \* the read_at call in flight: [pos, len]
    buf,         \* the caller's buffer of the call in flight
    total_read,  \* read_at's local total_read
    pos,         \* read_at's local (mut) pos
    backing,     \* the backing reader's read_at calls of this call: <<[off, len, n]>>
    ret,         \* the last result: <<>> | <<"Ok", n>> | <<"Err", msg>>
    \* ---- slice layer (src/src/slice.rs)
    slice,       \* the Slice/OwnedSlice: <<>> or <<[start, end, pos]>>
    scall,       \* the slice read_at call in flight or last made: <<>> or <<[pos, len]>>
    inner,       \* the read_at calls that slice call issued to its inner disk
    spc,         \* "none" | "idle" | "inner" | "done", and the cursored calls' states
    sret,        \* the slice call's result
    \* ---- ext4 reader (src/ext4/src/lib.rs)
    fs,          \* the filesystem image under the Ext4Reader (immutable)
    xret,        \* read_extent_blocks' result: <<>> | Ok(blocks) | Err(msg) | Diverges
    \* ---- the file stream Ext4FileReader
    position,    \* the stream's position
    mode,        \* what has been called since open: "none" | "fresh" | "seq" (reads
                 \* only) | "sought" (one seek(Start(k))) | "soughtread" (then one
                 \* read) | "other"
    acc,         \* the bytes the reads of a "seq" stream have returned, concatenated
    midblock,    \* a read of the "seq" stream began inside a block and returned bytes
    fop,         \* the last call: [op, arg, len, pos] (pos: position before it)
    fret,        \* its result: <<>> | Ok(bytes) (read) | Ok(position) (seek) | Err(msg)
    \* ---- paths and directories
    dpath,       \* None | Some(path): the path the caller is asking about
    dres         \* what exists, metadata, read_dir and find_inode_by_path returned
                 \* for it (Unset until called)

vdiVars   == <<file, disk, pc, call, buf, total_read, pos, backing, ret>>
sliceVars == <<slice, scall, inner, spc, sret>>
streamVars == <<position, mode, acc, midblock, fop, fret>>
dirVars   == <<dpath, dres>>
ext4Vars  == <<fs, xret, streamVars, dirVars>>
vars      == <<vdiVars, sliceVars, ext4Vars>>

----------------------------------------------------------------------------
(* Bounds of the model *)

MaxBlocks == 3       \* allocation-table entries of the modelled images
BlockSize == 2       \* the non-zero block_size of the modelled images
MaxBuf    == 4       \* longest caller buffer
MaxData   == 4       \* bytes of block data the backing file may hold
MaxSlice  == 7       \* largest slice bound and slice read position

(* Program constants *)

\* A u32 is the pair <<high 16 bits, low 16 bits>> (TLC's integers are 32-bit
\* signed, so the halves are kept apart); U32Val is its value when it fits.
Half         == 65536
W(hi, lo)    == <<hi, lo>>
U32Val(w)    == w[1] * Half + w[2]
Small(n)     == W(0, n)

SIGNATURE  == W(48858, 4223)     \* 0xBEDA107F
VERSION    == W(1, 1)            \* 0x00010001
U32MAX     == W(65535, 65535)    \* u32::MAX, the "unallocated" sentinel
DYNAMIC    == 1                  \* the image_type open accepts
HeaderSize == 456                \* size_of::<VdiHeader>()
ZeroByte   == 0                  \* what fill(0) writes

Stale       == 0 - 1         \* a buffer byte nobody wrote
FileByte(o) == o + 1         \* the byte of the backing file at offset o

None    == <<>>
Some(x) == <<x>>
Ok(n)   == <<"Ok", n>>
Err(m)  == <<"Err", m>>
IsOk(r) == Len(r) = 2 /\ r[1] = "Ok"
IsErr(r) == Len(r) = 2 /\ r[1] = "Err"

Min(a, b) == IF a <= b THEN a ELSE b

\* A u64 or i64 is the tuple of its four 16-bit limbs, most significant first
\* (an i64 in two's complement).
U64FromInt(n) == <<0, 0, n \div Half, n % Half>>
U64Zero       == <<0, 0, 0, 0>>
I64MIN        == <<32768, 0, 0, 0>>
I64MAX        == <<32767, 65535, 65535, 65535>>
U64MAX        == <<65535, 65535, 65535, 65535>>

\* The value fits the integers of the model, and is then AsInt.
FitsInt(v) == v[1] = 0 /\ v[2] = 0 /\ v[3] < 32768
AsInt(v)   == v[3] * Half + v[4]

\* x < y, unsigned
U64Less(x, y) ==
    \E i \in 1..4 : x[i] < y[i] /\ \A j \in 1..(i - 1) : x[j] = y[j]

\* offset < 0 for an i64
I64Negative(v) == v[1] >= 32768

\* x + y + cin on 64 bits: the wrapped sum and the carry out
AddCarry(x, y, cin) ==
    LET s4 == x[4] + y[4] + cin
        s3 == x[3] + y[3] + s4 \div Half
        s2 == x[2] + y[2] + s3 \div Half
        s1 == x[1] + y[1] + s2 \div Half
    IN  [sum |-> <<s1 % Half, s2 % Half, s3 % Half, s4 % Half>>, carry |-> s1 \div Half]

U64Not(x) == <<65535 - x[1], 65535 - x[2], 65535 - x[3], 65535 - x[4]>>

\* x.wrapping_add(y), x.wrapping_sub(y), x.wrapping_neg()
U64Add(x, y) == AddCarry(x, y, 0).sum
U64Sub(x, y) == AddCarry(x, U64Not(y), 1).sum
U64Neg(x)    == AddCarry(U64Zero, U64Not(x), 1).sum

\* min(n as u64, v) as usize, n an integer of the model
MinLen(n, v) == IF FitsInt(v) /\ AsInt(v) < n THEN AsInt(v) ELSE n

\* A call that does not return: a panic.
Panics == <<"Panics">>

----------------------------------------------------------------------------
(* VdiDisk::open *)

\* read_exact_at(off, n) on a file of length len: succeeds iff the n bytes exist
\* (an empty read always succeeds).
ReadExactOk(len, off, n) == n = 0 \/ off + n <= len

\* The allocation-table translation of open (lib.rs:39-53).
BlockOffsets(f) ==
    [i \in 1..f.blocks_in_image |->
        IF f.table[i] = U32MAX THEN None
        ELSE Some(f.data_offset + U32Val(f.table[i]) * f.block_size)]

\* (mutant) the image type is not checked
HeaderCheckNoType(f) ==
    IF f.version # VERSION THEN Err("Unsupported VDI version")
    ELSE IF f.signature # SIGNATURE THEN Err("Invalid VDI signature")
    ELSE Ok(0)

\* The three header checks, in the order open makes them (lib.rs:24-35).
HeaderCheck(f) ==
    IF f.version # VERSION THEN Err("Unsupported VDI version")
    ELSE IF f.signature # SIGNATURE THEN Err("Invalid VDI signature")
    ELSE IF f.image_type # DYNAMIC THEN Err("Only dynamic VDI images are supported")
    ELSE Ok(0)

\* open's result: Err(message), or Ok(the VdiDisk).
OpenResult(f) ==
    IF ~ReadExactOk(f.len, 0, HeaderSize) THEN Err("io: header")
    ELSE IF IsErr(HeaderCheck(f)) THEN HeaderCheck(f)
    ELSE IF ~ReadExactOk(f.len, f.block_offsets_offset, f.blocks_in_image * 4)
         THEN Err("io: block offsets")
    ELSE Ok([block_size    |-> f.block_size,
             block_offsets |-> BlockOffsets(f),
             disk_size     |-> f.disk_size,
             position      |-> 0])

Open ==
    /\ pc = "closed"
    /\ LET r == OpenResult(file) IN
       IF IsOk(r)
       THEN /\ disk' = Some(r[2])
            /\ pc' = "idle"
            /\ ret' = Ok(0)
       ELSE /\ disk' = None
            /\ pc' = "failed"
            /\ ret' = r
    /\ UNCHANGED <<file, call, buf, total_read, pos, backing>>
    /\ UNCHANGED <<sliceVars, ext4Vars>>

----------------------------------------------------------------------------
(* VdiDisk::read_at (lib.rs:73-104), one action per loop iteration *)

TheDisk == disk[1]

\* Entry to read_at: total_read = 0, the loop has not run yet.
EnterReadAt(p, n) ==
    /\ call' = [pos |-> p, len |-> n]
    /\ buf' = [i \in 1..n |-> Stale]
    /\ total_read' = 0
    /\ pos' = p
    /\ backing' = <<>>
    /\ ret' = <<>>
    /\ pc' = "loop"

BlockIndex  == pos \div TheDisk.block_size
\* (mutant) every backing read starts at the beginning of its block
BlockOffsetZero == pos - pos

BlockOffset == pos % TheDisk.block_size
\* (mutant) the chunk ignores what the call has already produced
ToReadWholeBuf == Min(call.len, TheDisk.block_size - BlockOffset)

ToRead      == Min(call.len - total_read, TheDisk.block_size - BlockOffset)

\* buf[total_read .. total_read + n) := bytes, as read_at's slices index it.
Filled(b, from, bytes) ==
    [i \in 1..Len(b) |-> IF i > from /\ i <= from + Len(bytes) THEN bytes[i - from] ELSE b[i]]

\* `while total_read < buf.len()` is false: return Ok(total_read).
ReadAtReturn ==
    /\ pc = "loop"
    /\ total_read >= call.len
    /\ ret' = Ok(total_read)
    /\ pc' = "done"
    /\ UNCHANGED <<file, disk, call, buf, total_read, pos, backing>>
    /\ UNCHANGED <<sliceVars, ext4Vars>>

\* pos / block_size with block_size = 0 panics (division by zero).
ReadAtDivZero ==
    /\ pc = "loop"
    /\ total_read < call.len
    /\ TheDisk.block_size = 0
    /\ pc' = "panic"
    /\ UNCHANGED <<file, disk, call, buf, total_read, pos, backing, ret>>
    /\ UNCHANGED <<sliceVars, ext4Vars>>

\* block_index >= block_offsets.len(): break, return Ok(total_read).
ReadAtEof ==
    /\ pc = "loop"
    /\ total_read < call.len
    /\ TheDisk.block_size # 0
    /\ BlockIndex >= Len(TheDisk.block_offsets)
    /\ ret' = Ok(total_read)
    /\ pc' = "done"
    /\ UNCHANGED <<file, disk, call, buf, total_read, pos, backing>>
    /\ UNCHANGED <<sliceVars, ext4Vars>>

\* (mutant) the hole is skipped without writing the buffer
ReadAtHoleNoFill ==
    /\ pc = "loop"
    /\ total_read < call.len
    /\ TheDisk.block_size # 0
    /\ BlockIndex < Len(TheDisk.block_offsets)
    /\ TheDisk.block_offsets[BlockIndex + 1] = None
    /\ total_read' = total_read + ToRead
    /\ pos' = pos + ToRead
    /\ UNCHANGED <<file, disk, call, buf, backing, ret, pc>>
    /\ UNCHANGED <<sliceVars, ext4Vars>>

\* The table entry is None: zero-fill to_read bytes and advance.
ReadAtHole ==
    /\ pc = "loop"
    /\ total_read < call.len
    /\ TheDisk.block_size # 0
    /\ BlockIndex < Len(TheDisk.block_offsets)
    /\ TheDisk.block_offsets[BlockIndex + 1] = None
    /\ buf' = Filled(buf, total_read, [k \in 1..ToRead |-> ZeroByte])
    /\ total_read' = total_read + ToRead
    /\ pos' = pos + ToRead
    /\ UNCHANGED <<file, disk, call, backing, ret, pc>>
    /\ UNCHANGED <<sliceVars, ext4Vars>>

\* What the backing reader may return for read_at(off, n), n > 0: 0 at or past the
\* end of the file, otherwise any count from 1 to what the file holds (short reads).
BackingCounts(off, n) ==
    IF off >= file.len THEN {0} ELSE 1..Min(n, file.len - off)

\* The table entry is Some(file_offset): one backing read_at for up to to_read bytes.
ReadAtBacking ==
    /\ pc = "loop"
    /\ total_read < call.len
    /\ TheDisk.block_size # 0
    /\ BlockIndex < Len(TheDisk.block_offsets)
    /\ TheDisk.block_offsets[BlockIndex + 1] # None
    /\ LET off == TheDisk.block_offsets[BlockIndex + 1][1] + BlockOffset IN
       \E n \in BackingCounts(off, ToRead) :
          /\ backing' = Append(backing, [off |-> off, len |-> ToRead, n |-> n])
          /\ IF n = 0
             THEN /\ ret' = Ok(total_read)       \* break: EOF
                  /\ pc' = "done"
                  /\ UNCHANGED <<buf, total_read, pos>>
             ELSE /\ buf' = Filled(buf, total_read, [k \in 1..n |-> FileByte(off + k - 1)])
                  /\ total_read' = total_read + n
                  /\ pos' = pos + n
                  /\ UNCHANGED <<ret, pc>>
    /\ UNCHANGED <<file, disk, call>>
    /\ UNCHANGED <<sliceVars, ext4Vars>>

\* The backing reader fails: `?` returns the error.
ReadAtBackingErr ==
    /\ pc = "loop"
    /\ total_read < call.len
    /\ TheDisk.block_size # 0
    /\ BlockIndex < Len(TheDisk.block_offsets)
    /\ TheDisk.block_offsets[BlockIndex + 1] # None
    /\ LET off == TheDisk.block_offsets[BlockIndex + 1][1] + BlockOffset IN
          backing' = Append(backing, [off |-> off, len |-> ToRead, n |-> 0])
    /\ ret' = Err("io")
    /\ pc' = "done"
    /\ UNCHANGED <<file, disk, call, buf, total_read, pos>>
    /\ UNCHANGED <<sliceVars, ext4Vars>>

ReadAtLoop ==
    \/ ReadAtReturn
    \/ ReadAtDivZero
    \/ ReadAtEof
    \/ ReadAtHole
    \/ ReadAtBacking
    \/ ReadAtBackingErr

\* A caller's read_at(p, buf) with buf.len() = n on the opened disk.
ReadAt ==
    /\ pc \in {"idle", "done"}
    /\ spc \in {"none"}
    /\ \E p \in 0..(MaxBlocks * BlockSize + 1), n \in 0..MaxBuf : EnterReadAt(p, n)
    /\ UNCHANGED <<file, disk>>
    /\ UNCHANGED <<sliceVars, ext4Vars>>

----------------------------------------------------------------------------
(* The backing files of the model *)

DataStart == HeaderSize + 4 * MaxBlocks + 4

DiskSizes(n, bs) == {d \in {n * bs - 1, n * bs, n * bs + 1} : d >= 0}

Files ==
    { [signature |-> sg, version |-> vs, image_type |-> it,
       block_offsets_offset |-> HeaderSize, data_offset |-> DataStart,
       disk_size |-> ds, block_size |-> bs, blocks_in_image |-> Len(tb),
       table |-> tb, len |-> ln] :
        sg \in {SIGNATURE, W(48858, 0)}, vs \in {VERSION, W(1, 0)}, it \in {DYNAMIC, 2},
        bs \in {0, BlockSize},
        tb \in UNION {[1..n -> {U32MAX, Small(0), Small(1)}] : n \in 0..MaxBlocks},
        ds \in 0..(MaxBlocks * BlockSize + 1),
        ln \in {HeaderSize - 1, HeaderSize} \cup {DataStart + k : k \in 0..MaxData} }

VdiFiles == {f \in Files : f.disk_size \in DiskSizes(f.blocks_in_image, f.block_size)}

NoStream ==
    /\ position = <<>>
    /\ mode = "none"
    /\ acc = <<>>
    /\ midblock = FALSE
    /\ fop = <<>>
    /\ fret = <<>>

NoDir ==
    /\ dpath = None
    /\ dres = <<>>

NoExt4 ==
    /\ fs = <<>>
    /\ xret = <<>>
    /\ NoStream
    /\ NoDir

NoSlice ==
    /\ slice = None
    /\ scall = None
    /\ inner = <<>>
    /\ spc = "none"
    /\ sret = <<>>

VdiInit ==
    /\ file \in VdiFiles
    /\ disk = None
    /\ pc = "closed"
    /\ call = [pos |-> 0, len |-> 0]
    /\ buf = <<>>
    /\ total_read = 0
    /\ pos = 0
    /\ backing = <<>>
    /\ ret = <<>>
    /\ NoSlice
    /\ NoExt4

VdiNext == Open \/ ReadAt \/ ReadAtLoop

SpecVdi == VdiInit /\ [][VdiNext]_vars

----------------------------------------------------------------------------
(* Slice / OwnedSlice (slice.rs): the two types hold the same fields and the same
   code, so one definition models both. *)

TheSlice == slice[1]

\* len(): (range.end - range.start) as usize
SliceLen(s) == s.end - s.start

\* (mutant) the buffer is not clamped to the range
SliceReadLenUnclamped(s, p, n) == n

\* read_at's read_len (slice.rs:73, 149)
SliceReadLen(s, p, n) == Min(n, SliceLen(s) - p)

\* VdiDisk::slice / slice_owned -> Slice::new / OwnedSlice::new
SliceNew ==
    /\ pc = "idle"
    /\ spc = "none"
    /\ \E st \in 0..MaxSlice, en \in 0..MaxSlice :
          /\ st <= en
          /\ slice' = Some([start |-> st, end |-> en, pos |-> 0])
    /\ spc' = "idle"
    /\ UNCHANGED <<scall, inner, sret>>
    /\ UNCHANGED <<vdiVars, ext4Vars>>

\* Slice::read_at(p, buf) up to the call of the inner read_at.
SliceReadAt ==
    /\ spc \in {"idle", "done"}
    /\ pc \in {"idle", "done"}
    /\ \E p \in 0..MaxSlice, n \in 0..MaxBuf :
          /\ scall' = Some([pos |-> p, len |-> n])
          /\ IF p >= SliceLen(TheSlice)
             THEN /\ sret' = Ok(0)
                  /\ inner' = <<>>
                  /\ spc' = "done"
                  /\ UNCHANGED <<call, buf, total_read, pos, backing, ret, pc>>
             ELSE /\ inner' = <<[pos |-> TheSlice.start + p,
                                 len |-> SliceReadLen(TheSlice, p, n)]>>
                  /\ EnterReadAt(TheSlice.start + p, SliceReadLen(TheSlice, p, n))
                  /\ spc' = "inner"
                  /\ UNCHANGED sret
    /\ UNCHANGED <<file, disk, slice>>
    /\ UNCHANGED ext4Vars

\* The inner read_at has returned: its result is the slice's result.
SliceReturn ==
    /\ spc = "inner"
    /\ pc = "done"
    /\ sret' = ret
    /\ spc' = "done"
    /\ UNCHANGED <<slice, scall, inner>>
    /\ UNCHANGED <<vdiVars, ext4Vars>>

\* The disks under the slices of the model: headers that open accepts, whole or
\* truncated backing files.
SliceFiles ==
    {f \in Files : /\ IsOk(OpenResult(f))
                   /\ f.blocks_in_image = MaxBlocks
                   /\ f.block_size = 0 => \A i \in 1..MaxBlocks : f.table[i] = U32MAX
                   /\ \E k \in 0..3 : \A i \in 1..MaxBlocks :
                          f.table[i] = IF (i + k) % 2 = 0 \/ k = 2 THEN U32MAX
                                       ELSE Small(i % 2)
                   /\ f.disk_size = f.blocks_in_image * f.block_size
                   /\ f.len \in {DataStart + 1, DataStart + MaxData}}

SliceInit ==
    /\ file \in SliceFiles
    /\ disk = None
    /\ pc = "closed"
    /\ call = [pos |-> 0, len |-> 0]
    /\ buf = <<>>
    /\ total_read = 0
    /\ pos = 0
    /\ backing = <<>>
    /\ ret = <<>>
    /\ NoSlice
    /\ NoExt4

SliceNext == Open \/ SliceNew \/ SliceReadAt \/ ReadAtLoop \/ SliceReturn

SpecSlice == SliceInit /\ [][SliceNext]_vars

----------------------------------------------------------------------------
(* Slice / OwnedSlice as cursored readers: Read::read and Seek::seek
   (slice.rs:28-66, 104-142).  Here spc is "idle" | "reading" | "read_done" |
   "seek_done" | "panic" and scall holds the cursor the call started from. *)

MaxSeek == 2        \* largest |offset| of a modelled SeekFrom::End / Current

\* Read::read(buf) up to the call of the inner read_at: the whole of buf is
\* handed to the disk at range.start + pos.
SliceRead ==
    /\ spc \in {"idle", "read_done", "seek_done"}
    /\ pc \in {"idle", "done"}
    /\ \E n \in 0..MaxBuf :
          /\ scall' = Some([pos |-> TheSlice.pos, len |-> n])
          /\ inner' = <<[pos |-> TheSlice.start + TheSlice.pos, len |-> n]>>
          /\ EnterReadAt(TheSlice.start + TheSlice.pos, n)
    /\ spc' = "reading"
    /\ UNCHANGED <<file, disk, slice, sret>>
    /\ UNCHANGED ext4Vars

\* The inner read_at has returned: `?`, then pos += read.
SliceReadReturn ==
    /\ spc = "reading"
    /\ pc = "done"
    /\ sret' = ret
    /\ slice' = IF IsOk(ret) THEN Some([TheSlice EXCEPT !.pos = @ + ret[2]]) ELSE slice
    /\ spc' = "read_done"
    /\ UNCHANGED <<scall, inner>>
    /\ UNCHANGED <<vdiVars, ext4Vars>>

\* The inner read_at panicked (block_size = 0): so does read.
SliceReadPanics ==
    /\ spc = "reading"
    /\ pc = "panic"
    /\ spc' = "panic"
    /\ UNCHANGED <<slice, scall, inner, sret>>
    /\ UNCHANGED <<vdiVars, ext4Vars>>

SliceSeekFroms ==
    {<<"Start", k>> : k \in 0..(MaxSlice + 1)}
        \cup {<<w, d>> : w \in {"End", "Current"}, d \in (0 - MaxSeek)..MaxSeek}

\* (mutant) the new position is compared with len()
SeekLimitLen(s) == SliceLen(s)

\* new_pos > self.range.end (slice.rs:56, 132)
SeekLimit(s) == s.end

\* new_pos of seek (slice.rs:38-54, 114-130) on values that fit an integer:
\* Ok(new_pos), or "underflow" where the u64 subtraction goes below zero.
SliceNewPos(s, from) ==
    LET base == IF from[1] = "End" THEN SliceLen(s) ELSE s.pos IN
    IF from[1] = "Start" THEN Ok(from[2])
    ELSE IF base + from[2] < 0 THEN <<"underflow">>
    ELSE Ok(base + from[2])

\* Seek::seek(from).  An underflowing subtraction panics in a build with
\* overflow checks and wraps to a value near 2^64 in one without, which is
\* greater than range.end.
SliceSeek ==
    /\ spc \in {"idle", "read_done", "seek_done"}
    /\ pc \in {"idle", "done"}
    /\ \E from \in SliceSeekFroms, checks \in BOOLEAN :
          LET new_pos == SliceNewPos(TheSlice, from) IN
          /\ scall' = Some([pos |-> TheSlice.pos, from |-> from])
          /\ IF ~IsOk(new_pos) /\ checks
             THEN /\ spc' = "panic"
                  /\ UNCHANGED <<slice, sret>>
             ELSE /\ spc' = "seek_done"
                  /\ IF ~IsOk(new_pos) \/ new_pos[2] > SeekLimit(TheSlice)
                     THEN /\ sret' = Err("seek out of bounds")
                          /\ UNCHANGED slice
                     ELSE /\ slice' = Some([TheSlice EXCEPT !.pos = new_pos[2]])
                          /\ sret' = Ok(new_pos[2])
    /\ UNCHANGED inner
    /\ UNCHANGED <<vdiVars, ext4Vars>>

\* The disks under the cursored slices: whole backing files, one with holes in
\* the blocks 0 and 2 and one with block_size 0.
CursorFiles ==
    {f \in SliceFiles : /\ f.len = DataStart + MaxData
                        /\ f.table[1] = U32MAX
                        /\ f.block_size # 0 => f.table[2] # U32MAX}

CursorInit ==
    /\ file \in CursorFiles
    /\ disk = None
    /\ pc = "closed"
    /\ call = [pos |-> 0, len |-> 0]
    /\ buf = <<>>
    /\ total_read = 0
    /\ pos = 0
    /\ backing = <<>>
    /\ ret = <<>>
    /\ NoSlice
    /\ NoExt4

CursorNext ==
    Open \/ SliceNew \/ SliceRead \/ ReadAtLoop \/ SliceReadReturn \/ SliceReadPanics
        \/ SliceSeek

SpecCursor == CursorInit /\ [][CursorNext]_vars

----------------------------------------------------------------------------
(* ext4: the extent-tree walker (ext4/src/lib.rs:229-290) *)

ExtMagic     == 62218     \* 0xF30A
RootWords    == 15        \* i_block: [u32; EXT4_N_BLOCKS]

MaxLeafEntries == 2       \* entries per extent node of the modelled trees
MaxExtLen      == 2       \* largest length field of a modelled leaf extent
MaxRecursion   == 3       \* nested calls after which the walk is taken not to return

\* u32 words of one block in the modelled images (block_size / 4 in the code):
\* a header and MaxLeafEntries entries.
WordsPerBlock == 3 + 3 * MaxLeafEntries

Diverges == <<"Diverges">>

\* extent_data[i], zero-based as in the code
At(data, i) == data[i + 1]

\* (physical_block + j) as u32, for the low word w of physical_block:
\* physical_block_hi << 32 does not reach the low 32 bits.
AddU32(w, j) == W((w[1] + (w[2] + j) \div Half) % Half, (w[2] + j) % Half)

\* (mutant) the run has one block too few
ExtentRunShort(lo, length) == [j \in 1..(IF length > 0 THEN length - 1 ELSE 0) |-> AddU32(lo, j - 1)]

\* for j in 0..length { blocks.push((physical_block + j) as u32) }
ExtentRun(lo, length) == [j \in 1..length |-> AddU32(lo, j - 1)]

\* The device read of an index entry's child: the u32 words of block
\* (physical_hi << 32 | physical_lo), or None when read_exact_at fails.
ReadNode(nodes, hi, lo) ==
    IF hi = 0 /\ lo[1] = 0 /\ lo[2] \in DOMAIN nodes THEN Some(nodes[lo[2]]) ELSE None

RECURSIVE LeafLoop(_, _, _)
\* The depth == 0 loop from entry i on (lib.rs:247-262).
LeafLoop(data, i, entries) ==
    IF i >= entries THEN <<>>
    ELSE LET base_idx == 3 + i * 3 IN
         IF base_idx + 2 < Len(data)
         THEN ExtentRun(At(data, base_idx + 2), At(data, base_idx + 1)[2])
                  \o LeafLoop(data, i + 1, entries)
         ELSE LeafLoop(data, i + 1, entries)

RECURSIVE IndexLoop(_, _, _, _, _, _)
RECURSIVE ReadExtentBlocksRecursive(_, _, _)

\* The depth > 0 loop from entry i on, blocks collected so far (lib.rs:265-286).
IndexLoop(nodes, data, i, entries, blocks, fuel) ==
    IF i >= entries THEN Ok(blocks)
    ELSE LET base_idx == 3 + i * 3 IN
         IF base_idx + 2 < Len(data)
         THEN LET child == ReadNode(nodes, At(data, base_idx + 2)[2], At(data, base_idx + 1))
              IN  IF child = None THEN Err("IO error")
                  ELSE IF fuel = 0 THEN Diverges
                  ELSE LET sub == ReadExtentBlocksRecursive(nodes, child[1], fuel - 1)
                       IN  IF IsOk(sub)
                           THEN IndexLoop(nodes, data, i + 1, entries, blocks \o sub[2], fuel)
                           ELSE sub
         ELSE IndexLoop(nodes, data, i + 1, entries, blocks, fuel)

\* read_extent_blocks_recursive(extent_data) (lib.rs:233-290)
ReadExtentBlocksRecursive(nodes, data, fuel) ==
    LET magic   == At(data, 0)[2]
        entries == At(data, 0)[1]
        depth   == At(data, 1)[1]
    IN  IF magic # ExtMagic THEN Err("Unsupported filesystem feature: extents")
        ELSE IF depth = 0 THEN Ok(LeafLoop(data, 0, entries))
        ELSE IndexLoop(nodes, data, 0, entries, <<>>, fuel)

\* read_extent_blocks(inode) (lib.rs:229-231)
ReadExtentBlocks(nodes, i_block) == ReadExtentBlocksRecursive(nodes, i_block, MaxRecursion)

----------------------------------------------------------------------------
(* Extent trees of the model and their on-disk encoding *)

ZeroWord == W(0, 0)

\* A leaf extent: length field, physical_hi, physical_lo (a u32).
Extents ==
    { [len |-> n, hi |-> st[1], lo |-> st[2]] :
        n \in 0..MaxExtLen,
        st \in { <<0, W(0, 5)>>, <<0, W(0, 9)>>, <<1, W(65535, 65535)>> } }

SeqsUpTo(S, n) == UNION { [1..k -> S] : k \in 0..n }

\* A tree: depth, its extents (depth 0) or its children (depth > 0).
Leaf(exts)       == [depth |-> 0, exts |-> exts, kids |-> <<>>]
Index(d, kids)   == [depth |-> d, exts |-> <<>>, kids |-> kids]

LeafNodes  == { Leaf(e) : e \in SeqsUpTo(Extents, MaxLeafEntries) }
SmallLeafs == { Leaf(e) : e \in SeqsUpTo(Extents, 1) }
Depth1     == { Index(1, k) : k \in SeqsUpTo(SmallLeafs, 2) \ {<<>>} }
Depth2     == { Index(2, <<t>>) : t \in Depth1 }
\* Roots filled to the four entries that fit the 15 words of i_block.
FullRoots  == { Leaf(e) : e \in [1..((RootWords - 3) \div 3) ->
                                   {x \in Extents : x.len = 1 /\ x.lo[1] = 0}] }
Trees      == LeafNodes \cup FullRoots \cup Depth1 \cup Depth2

\* The u32 words of a leaf node of `size` words: header, then per extent
\* logical_block, (physical_hi << 16 | length), physical_lo.
LeafWords(exts, size) ==
    [k \in 1..size |->
        IF k = 1 THEN W(Len(exts), ExtMagic)
        ELSE IF k = 2 THEN W(0, (size - 3) \div 3)
        ELSE IF k = 3 \/ (k - 4) \div 3 + 1 > Len(exts) THEN ZeroWord
        ELSE LET e == exts[(k - 4) \div 3 + 1] IN
             CASE (k - 4) % 3 = 0 -> ZeroWord
               [] (k - 4) % 3 = 1 -> W(e.hi, e.len)
               [] OTHER           -> e.lo]

\* The u32 words of an index node over the child blocks `kids`: header, then per
\* entry logical_block, physical_lo, physical_hi.
IndexWords(depth, kids, size) ==
    [k \in 1..size |->
        IF k = 1 THEN W(Len(kids), ExtMagic)
        ELSE IF k = 2 THEN W(depth, (size - 3) \div 3)
        ELSE IF k = 3 \/ (k - 4) \div 3 + 1 > Len(kids) THEN ZeroWord
        ELSE CASE (k - 4) % 3 = 1 -> W(0, kids[(k - 4) \div 3 + 1])
               [] OTHER           -> ZeroWord]

\* Where the modelled trees keep their nodes: the root's children at
\* KidBlock + i, the children of an index block at GrandBlock + i.
KidBlock   == 20
GrandBlock == 30

KidBlocks(n, first) == [i \in 1..n |-> first + i - 1]

\* The image of a tree: the inode's i_block and the node blocks on the device.
TreeImage(t) ==
    [tree  |-> Some(t),
     root  |-> IF t.depth = 0 THEN LeafWords(t.exts, RootWords)
               ELSE IndexWords(t.depth, KidBlocks(Len(t.kids), KidBlock), RootWords),
     nodes |-> IF t.depth = 0 THEN [b \in {} |-> <<>>]
               ELSE IF t.depth = 1
               THEN [b \in KidBlock..(KidBlock + Len(t.kids) - 1) |->
                        LeafWords(t.kids[b - KidBlock + 1].exts, WordsPerBlock)]
               ELSE [b \in {KidBlock} \cup
                           (GrandBlock..(GrandBlock + Len(t.kids[1].kids) - 1)) |->
                        IF b = KidBlock
                        THEN IndexWords(1, KidBlocks(Len(t.kids[1].kids), GrandBlock),
                                        WordsPerBlock)
                        ELSE LeafWords(t.kids[1].kids[b - GrandBlock + 1].exts,
                                       WordsPerBlock)]]

OneExtent == <<[len |-> 1, hi |-> 0, lo |-> W(0, 5)]>>

\* Images that are not valid trees: a bad magic, a header that declares more
\* entries than the root holds, a child block off the device, a block whose index
\* entry points back at itself.
BrokenImages ==
    { [tree |-> None, root |-> [LeafWords(OneExtent, RootWords) EXCEPT ![1] = W(1, 0)],
       nodes |-> [b \in {} |-> <<>>]],
      [tree |-> None, root |-> [LeafWords(OneExtent, RootWords) EXCEPT ![1] = W(5, ExtMagic)],
       nodes |-> [b \in {} |-> <<>>]],
      [tree |-> None, root |-> IndexWords(1, <<KidBlock>>, RootWords),
       nodes |-> [b \in {} |-> <<>>]],
      [tree |-> None, root |-> IndexWords(2, <<KidBlock>>, RootWords),
       nodes |-> [b \in {KidBlock} |-> IndexWords(2, <<KidBlock>>, WordsPerBlock)]] }

ExtentImages == {TreeImage(t) : t \in Trees} \cup BrokenImages

\* read_extent_blocks on the image's inode.
CallReadExtentBlocks ==
    /\ xret = <<>>
    /\ xret' = ReadExtentBlocks(fs.nodes, fs.root)
    /\ UNCHANGED <<fs, streamVars, dirVars>>
    /\ UNCHANGED <<vdiVars, sliceVars>>

NoVdi ==
    /\ file = <<>>
    /\ disk = None
    /\ pc = "none"
    /\ call = [pos |-> 0, len |-> 0]
    /\ buf = <<>>
    /\ total_read = 0
    /\ pos = 0
    /\ backing = <<>>
    /\ ret = <<>>

ExtentInit ==
    /\ fs \in ExtentImages
    /\ xret = <<>>
    /\ NoStream
    /\ NoDir
    /\ NoVdi
    /\ NoSlice

ExtentNext == CallReadExtentBlocks

SpecExtent == ExtentInit /\ [][ExtentNext]_vars

----------------------------------------------------------------------------
(* ext4: file data (ext4/src/lib.rs:495-576) and the stream Ext4FileReader (60-133) *)

EXT4_EXTENTS_FL == 524288     \* 0x80000; i_flags is modelled by this one bit
NDirect         == 12         \* i_block[0..12]
S_IFDIR         == 16384      \* 0x4000, a directory's i_mode & 0xF000
S_IFREG         == 32768      \* 0x8000, a regular file's

\* The byte of the device at offset block * block_size + o, for a u32 block number.
DevByte(block, o) == <<block[1], block[2], o>>

\* read_exact_at(block * block_size + skip, n) on the device succeeds.
DevReadOk(img, block, skip, n) ==
    n = 0 \/ (block[1] = 0 /\ block[2] * img.block_size + skip + n <= img.dev_len)

\* ((i_size_high as u64) << 32) | i_size_lo: the field size holds the two
\* halves joined, as a u64.
FileSize(inode) == inode.size

\* i_block[0..12] up to its first zero: the blocks the non-extent loops visit.
RECURSIVE DirectBlocks(_, _)
DirectBlocks(i_block, i) ==
    IF i >= NDirect \/ At(i_block, i) = ZeroWord THEN <<>>
    ELSE <<At(i_block, i)>> \o DirectBlocks(i_block, i + 1)

\* (mutant) every block is read from its first byte
SkipBytesNone(block_idx, start_block, start_offset) == 0

\* skip_bytes (lib.rs:524-528, 556-560)
SkipBytes(block_idx, start_block, start_offset) ==
    IF block_idx = start_block THEN start_offset ELSE 0

\* `if block_idx < start_block { continue; }` (lib.rs:514, 546)
BlockSkipped(block_idx, start_block) == block_idx < start_block

RECURSIVE BlockLoop(_, _, _, _, _, _, _)
\* The loop over the block list from block_idx on (lib.rs:513-539 and 541-571,
\* which differ only in where the list comes from): Ok(data) or Err.
BlockLoop(img, blocks, block_idx, start_block, start_offset, remaining, data) ==
    IF block_idx >= Len(blocks) THEN Ok(data)
    ELSE IF BlockSkipped(block_idx, start_block)
    THEN BlockLoop(img, blocks, block_idx + 1, start_block, start_offset, remaining, data)
    ELSE IF remaining = 0 THEN Ok(data)
    ELSE LET block_num  == At(blocks, block_idx)
             skip_bytes == SkipBytes(block_idx, start_block, start_offset)
             read_size  == Min(img.block_size - skip_bytes, remaining)
         IN  IF ~DevReadOk(img, block_num, skip_bytes, read_size) THEN Err("IO error")
             ELSE BlockLoop(img, blocks, block_idx + 1, start_block, start_offset,
                            remaining - read_size,
                            data \o [k \in 1..read_size |->
                                        DevByte(block_num, skip_bytes + k - 1)])

\* start / self.block_size.  A start beyond the integers of the model lies
\* beyond every block list (a list has fewer than 2^31 / block_size blocks): it
\* is then given as an index no list of the model has.
StartBlock(img, start) ==
    IF FitsInt(start) THEN AsInt(start) \div img.block_size ELSE 2147483647

\* start % self.block_size; not used when every block is skipped
StartOffset(img, start) ==
    IF FitsInt(start) THEN AsInt(start) % img.block_size ELSE 0

\* read_file_data_range(inode, start, length): Ok(bytes) or Err (lib.rs:495-576)
ReadFileDataRange(img, inode, start, length) ==
    IF ~U64Less(start, FileSize(inode)) THEN Ok(<<>>)
    ELSE LET actual_length == MinLen(length, U64Sub(FileSize(inode), start))
             start_block   == StartBlock(img, start)
             start_offset  == StartOffset(img, start)
         IN  IF inode.extents
             THEN LET blocks == ReadExtentBlocks(img.nodes, inode.i_block) IN
                  IF IsOk(blocks)
                  THEN BlockLoop(img, blocks[2], 0, start_block, start_offset,
                                 actual_length, <<>>)
                  ELSE blocks
             ELSE BlockLoop(img, DirectBlocks(inode.i_block, 0), 0, start_block,
                            start_offset, actual_length, <<>>)

\* Ext4FileReader::read(buf) with buf.len() = n at position p: Ok(bytes) or Err
\* (lib.rs:73-97); the position moves by the number of bytes.
StreamRead(img, p, n) ==
    IF ~U64Less(p, FileSize(img.inode)) THEN Ok(<<>>)
    ELSE IF MinLen(n, U64Sub(FileSize(img.inode), p)) = 0 THEN Ok(<<>>)
    ELSE ReadFileDataRange(img, img.inode, p, MinLen(n, U64Sub(FileSize(img.inode), p)))

\* base + offset as u64, for offset >= 0 (lib.rs:105, 114): the sum wraps, or
\* panics in a build with overflow checks.
AddOffset(base, offset, checks) ==
    LET r == AddCarry(base, offset, 0) IN
    IF r.carry = 1 /\ checks THEN Panics ELSE Ok(r.sum)

\* base.checked_sub((-offset) as u64), for offset < 0 (lib.rs:107-109, 116-118):
\* -offset overflows for i64::MIN, which panics in a build with overflow checks
\* and otherwise leaves i64::MIN, 2^63 as a u64.
SubOffset(base, offset, checks) ==
    IF offset = I64MIN /\ checks THEN Panics
    ELSE IF U64Less(base, U64Neg(offset)) THEN Err("Seek before start")
    ELSE Ok(U64Sub(base, U64Neg(offset)))

\* Ext4FileReader::seek's new_pos: Ok(target), Err or Panics (lib.rs:101-121)
SeekTarget(size, p, from, checks) ==
    CASE from[1] = "Start"   -> Ok(from[2])
      [] from[1] = "End"     -> IF ~I64Negative(from[2])
                                THEN AddOffset(size, from[2], checks)
                                ELSE SubOffset(size, from[2], checks)
      [] from[1] = "Current" -> IF ~I64Negative(from[2])
                                THEN AddOffset(p, from[2], checks)
                                ELSE SubOffset(p, from[2], checks)

\* Ext4FileReader::seek (lib.rs:99-133)
StreamSeek(size, p, from, checks) ==
    LET t == SeekTarget(size, p, from, checks) IN
    IF ~IsOk(t) THEN t
    ELSE IF U64Less(size, t[2]) THEN Err("Seek beyond end of file")
    ELSE t

MaxFileBuf == 3       \* longest buffer given to a stream read
MaxDrift   == 2       \* how far from 2^63 and from size the positions of a
                      \* file too large for the integers of the model are followed

\* read(buf), buf.len() = n
FileRead ==
    /\ mode \notin {"none", "panicked"}
    /\ \E n \in 0..MaxFileBuf :
          LET r == StreamRead(fs, position, n) IN
          /\ fop' = [op |-> "read", arg |-> <<>>, len |-> n, pos |-> position]
          /\ fret' = r
          /\ position' = IF IsOk(r) THEN U64Add(position, U64FromInt(Len(r[2])))
                         ELSE position
          /\ mode' = IF mode \in {"fresh", "seq"} /\ IsOk(r) THEN "seq"
                     ELSE IF mode = "sought" THEN "soughtread"
                     ELSE "other"
          /\ acc' = IF mode \in {"fresh", "seq"} /\ IsOk(r) THEN acc \o r[2] ELSE <<>>
          /\ midblock' = IF mode \in {"fresh", "seq"} /\ IsOk(r)
                         THEN midblock \/ (/\ FitsInt(position)
                                           /\ AsInt(position) % fs.block_size # 0
                                           /\ r[2] # <<>>)
                         ELSE FALSE
    /\ UNCHANGED <<fs, xret, dirVars>>
    /\ UNCHANGED <<vdiVars, sliceVars>>

\* The i64 of a small integer
I64FromInt(d) == IF d >= 0 THEN U64FromInt(d) ELSE U64Neg(U64FromInt(0 - d))

\* v lies within MaxDrift of the mark
Near(v, mark) ==
    \/ FitsInt(U64Sub(v, mark)) /\ AsInt(U64Sub(v, mark)) <= MaxDrift
    \/ FitsInt(U64Sub(mark, v)) /\ AsInt(U64Sub(mark, v)) <= MaxDrift

\* The positions followed: all those of a file that fits the integers of the
\* model; of a larger file those next to 0, 2^63 and size.
Followed(v) ==
    \/ FitsInt(FileSize(fs.inode))
    \/ Near(v, U64Zero) \/ Near(v, I64MIN) \/ Near(v, FileSize(fs.inode))

\* The arguments of seek: every small target and offset, and the ends of the
\* ranges of u64 and i64.
SeekFroms ==
    { <<"Start", U64FromInt(k)>> :
          k \in 0..(IF FitsInt(FileSize(fs.inode)) THEN AsInt(FileSize(fs.inode)) + 1
                    ELSE MaxDrift) }
        \cup { <<"Start", v>> : v \in {I64MAX, I64MIN, FileSize(fs.inode), U64MAX} }
        \cup { <<w, I64FromInt(d)>> : w \in {"End", "Current"}, d \in {0 - 1, 0, 1} }
        \cup { <<w, v>> : w \in {"End", "Current"},
                          v \in {I64MIN, U64Add(I64MIN, U64FromInt(1)), I64MAX} }

\* seek(from)
FileSeek ==
    /\ mode \notin {"none", "panicked"}
    /\ \E from \in SeekFroms :
          LET r == StreamSeek(FileSize(fs.inode), position, from, fs.overflow_checks) IN
          /\ IsOk(r) => Followed(r[2])
          /\ fop' = [op |-> "seek", arg |-> from, len |-> 0, pos |-> position]
          /\ fret' = r
          /\ position' = IF IsOk(r) THEN r[2] ELSE position
          /\ mode' = IF r = Panics THEN "panicked"
                     ELSE IF mode = "fresh" /\ from[1] = "Start" /\ IsOk(r) THEN "sought"
                     ELSE "other"
          /\ acc' = <<>>
          /\ midblock' = FALSE
    /\ UNCHANGED <<fs, xret, dirVars>>
    /\ UNCHANGED <<vdiVars, sliceVars>>

----------------------------------------------------------------------------
(* The regular files of the model *)

FileBlockSize == 2      \* block_size of the modelled file images, in bytes
FileDevBlocks == 12     \* the device of the file images holds blocks 0..11

Direct(ptrs) == [k \in 1..RootWords |-> IF k <= Len(ptrs) THEN W(0, ptrs[k]) ELSE ZeroWord]

\* Pointer lists: contiguous, not contiguous, with a hole, to a block off the
\* device, and all twelve direct pointers in use (with an indirect block after).
DirectLists ==
    { <<>>, <<5>>, <<5, 6>>, <<7, 5>>, <<5, 0, 7>>, <<9, 5, 7>>, <<5, 99>>,
      <<1, 2, 3, 4, 5, 6, 7, 8, 9, 10, 11, 3, 8>> }

FileTrees ==
    { Leaf(<<>>),
      Leaf(<<[len |-> 2, hi |-> 0, lo |-> W(0, 5)]>>),
      Leaf(<<[len |-> 1, hi |-> 0, lo |-> W(0, 9)], [len |-> 2, hi |-> 0, lo |-> W(0, 5)]>>),
      Leaf(<<[len |-> 1, hi |-> 0, lo |-> W(0, 5)], [len |-> 1, hi |-> 0, lo |-> W(0, 99)]>>),
      Index(1, <<Leaf(<<[len |-> 1, hi |-> 0, lo |-> W(0, 7)]>>),
                 Leaf(<<[len |-> 2, hi |-> 0, lo |-> W(0, 3)]>>)>>) }

\* The sizes tried with a block list of n blocks: empty, inside the list, ending
\* inside and at the end of its last block, and beyond the list.
SizesFor(n) ==
    {sz \in {0, 1, n * FileBlockSize - 1, n * FileBlockSize, n * FileBlockSize + 1,
             (n + 1) * FileBlockSize} : sz >= 0}

FileImage(nodes, extents, i_block, size, checks) ==
    [block_size |-> FileBlockSize, dev_len |-> FileDevBlocks * FileBlockSize,
     nodes |-> nodes, overflow_checks |-> checks,
     inode |-> [i_mode |-> S_IFREG + 420, size |-> size, extents |-> extents,
                i_block |-> i_block]]

\* Sizes an inode can declare beyond the integers of the model: 2^63 - 1,
\* 2^63 + 1 and 2^64 - 1.  The images are built with overflow checks; a
\* two-block file and the files of these sizes also without.
HugeSizes == {I64MAX, U64Add(I64MIN, U64FromInt(1)), U64MAX}

FileImages ==
    UNION { { FileImage([b \in {} |-> <<>>], FALSE, Direct(l), U64FromInt(sz), TRUE) :
                sz \in IF Len(l) > NDirect THEN SizesFor(NDirect)
                       ELSE UNION {SizesFor(n) : n \in 0..3} } :
            l \in DirectLists }
    \cup
    { FileImage(TreeImage(t).nodes, TRUE, TreeImage(t).root, U64FromInt(sz), TRUE) :
        t \in FileTrees, sz \in UNION {SizesFor(n) : n \in 0..3} }
    \cup
    { FileImage([b \in {} |-> <<>>], FALSE, Direct(<<5, 6>>), U64FromInt(sz), FALSE) :
        sz \in SizesFor(2) }
    \cup
    { FileImage([b \in {} |-> <<>>], FALSE, Direct(<<5, 6>>), sz, c) :
        sz \in HugeSizes, c \in BOOLEAN }

\* The stream open() returns: position 0 (lib.rs:420-425).
FileInit ==
    /\ fs \in FileImages
    /\ xret = <<>>
    /\ position = U64Zero
    /\ mode = "fresh"
    /\ acc = <<>>
    /\ midblock = FALSE
    /\ fop = <<>>
    /\ fret = <<>>
    /\ NoDir
    /\ NoVdi
    /\ NoSlice

FileNext == FileRead \/ FileSeek

SpecFile == FileInit /\ [][FileNext]_vars

----------------------------------------------------------------------------
(* ext4: inodes, directory records, listings and paths (ext4/src/lib.rs:185-227,
   292-404, 428-493).  A name is the sequence of its code points. *)

EXT4_ROOT_INO    == 2
EXT4_FT_REG_FILE == 1
EXT4_FT_DIR      == 2
Slash            == 47         \* '/'
Replacement      == 65533      \* U+FFFD

\* A result that is neither Ok nor Err ends the caller as well.
Aborts(r) == r = Panics \/ r = Diverges

\* The value a call without a Result returns
Ret(v)   == <<"Ret", v>>
IsRet(r) == Len(r) = 2 /\ r[1] = "Ret"

\* i_mode & 0xF000, i_mode a u16
ModeType(i_mode) == (i_mode \div 4096) * 4096

\* read_inode(inode_num): Ok(inode) or Err (lib.rs:185-205).  The images keep
\* inodes_per_group * groups below 2^16, so a number with a high half set lies
\* beyond the groups; the read fails where the inode table leaves the device.
ReadInode(img, inode_num) ==
    IF inode_num = ZeroWord THEN Err("InvalidInode")
    ELSE IF inode_num[1] > 0
            \/ (inode_num[2] - 1) \div img.inodes_per_group >= img.groups
    THEN Err("InvalidInode")
    ELSE IF inode_num[2] \in DOMAIN img.inodes THEN Ok(img.inodes[inode_num[2]])
    ELSE Err("IO error")

\* u16::from_le_bytes of the two bytes at the zero-based offset o
U16At(block, o) == block[o + 1] + 256 * block[o + 2]

\* String::from_utf8_lossy on names made of ASCII bytes and of the bytes 0xFE
\* and 0xFF, which no UTF-8 sequence holds: each becomes one U+FFFD.
Lossy(bytes) == [k \in 1..Len(bytes) |-> IF bytes[k] < 128 THEN bytes[k] ELSE Replacement]

\* offset < size as usize, for an offset inside a block
OffsetBelow(offset, size) == IF FitsInt(size) THEN offset < AsInt(size) ELSE TRUE

RECURSIVE DirBlockLoop(_, _, _, _, _)
\* The record loop of read_directory_block from offset on (lib.rs:305-344):
\* Ok(entries), Err, or Panics.  For rec_len < 8 the subtraction rec_len - 8
\* panics in a build with overflow checks and wraps otherwise (then name_len is
\* not greater, and the name slice panics when it leaves the block).
DirBlockLoop(img, block, size, offset, entries) ==
    IF ~(offset < Len(block) /\ OffsetBelow(offset, size)) THEN Ok(entries)
    ELSE IF offset + 8 > Len(block) THEN Ok(entries)
    ELSE LET inode     == W(U16At(block, offset + 2), U16At(block, offset))
             rec_len   == U16At(block, offset + 4)
             name_len  == block[offset + 7]
             file_type == block[offset + 8]
         IN  IF rec_len = 0 \/ rec_len > Len(block) - offset
             THEN Err("InvalidDirectoryEntry")
             ELSE IF rec_len < 8 /\ img.overflow_checks THEN Panics
             ELSE IF rec_len >= 8 /\ name_len > rec_len - 8
             THEN Err("InvalidDirectoryEntry")
             ELSE IF offset + 8 + name_len > Len(block) THEN Panics
             ELSE LET name == Lossy(SubSeq(block, offset + 9, offset + 8 + name_len)) IN
                  DirBlockLoop(img, block, size, offset + rec_len,
                      IF inode # ZeroWord /\ name # <<>>
                      THEN Append(entries, [inode |-> inode, rec_len |-> rec_len,
                                            name_len |-> name_len,
                                            file_type |-> file_type, name |-> name])
                      ELSE entries)

\* read_directory_block(block_num, size, entries) (lib.rs:292-347)
ReadDirectoryBlock(img, block_num, size, entries) ==
    IF block_num[1] = 0 /\ block_num[2] \in DOMAIN img.blocks
    THEN DirBlockLoop(img, img.blocks[block_num[2]], size, 0, entries)
    ELSE Err("IO error")

RECURSIVE DirBlocksLoop(_, _, _, _, _)
\* for block_num in blocks { self.read_directory_block(...)?; } (lib.rs:213-223)
DirBlocksLoop(img, blocks, i, size, entries) ==
    IF i >= Len(blocks) THEN Ok(entries)
    ELSE LET r == ReadDirectoryBlock(img, At(blocks, i), size, entries) IN
         IF IsOk(r) THEN DirBlocksLoop(img, blocks, i + 1, size, r[2]) ELSE r

\* read_directory_entries(inode) (lib.rs:207-227)
ReadDirectoryEntries(img, inode) ==
    IF inode.extents
    THEN LET blocks == ReadExtentBlocks(img.nodes, inode.i_block) IN
         IF IsOk(blocks) THEN DirBlocksLoop(img, blocks[2], 0, FileSize(inode), <<>>)
         ELSE blocks
    ELSE DirBlocksLoop(img, DirectBlocks(inode.i_block, 0), 0, FileSize(inode), <<>>)

RECURSIVE ComponentsKeepEmpty(_, _)
\* (mutant) empty components are kept
ComponentsKeepEmpty(path, cur) ==
    IF path = <<>> THEN <<cur>>
    ELSE IF Head(path) = Slash
    THEN <<cur>> \o ComponentsKeepEmpty(Tail(path), <<>>)
    ELSE ComponentsKeepEmpty(Tail(path), Append(cur, Head(path)))

RECURSIVE Components(_, _)
\* path_str.split('/').filter(|s| !s.is_empty()); cur is the piece being read
Components(path, cur) ==
    IF path = <<>> THEN (IF cur = <<>> THEN <<>> ELSE <<cur>>)
    ELSE IF Head(path) = Slash
    THEN (IF cur = <<>> THEN <<>> ELSE <<cur>>) \o Components(Tail(path), <<>>)
    ELSE Components(Tail(path), Append(cur, Head(path)))

\* The first entry named component, as the `for entry in entries` loop finds it.
FirstNamed(entries, component) ==
    LET hits == {i \in 1..Len(entries) : entries[i].name = component} IN
    IF hits = {} THEN None
    ELSE Some(entries[CHOOSE i \in hits : \A j \in hits : i <= j])

RECURSIVE WalkComponents(_, _, _)
\* for component in components { ... } (lib.rs:462-490)
WalkComponents(img, components, current_inode) ==
    IF components = <<>> THEN Ok(current_inode)
    ELSE LET inode == ReadInode(img, current_inode) IN
         IF ~IsOk(inode) THEN inode
         ELSE IF ModeType(inode[2].i_mode) # S_IFDIR
         THEN Err("FileNotFound: path component is not a directory")
         ELSE LET entries == ReadDirectoryEntries(img, inode[2]) IN
              IF ~IsOk(entries) THEN entries
              ELSE LET hit == FirstNamed(entries[2], Head(components)) IN
                   IF hit = None THEN Err("FileNotFound: path not found")
                   ELSE WalkComponents(img, Tail(components), hit[1].inode)

\* find_inode_by_path(path), for a path that is valid UTF-8 (lib.rs:449-493)
FindInodeByPath(img, path) ==
    IF path = <<Slash>> THEN Ok(W(0, EXT4_ROOT_INO))
    ELSE WalkComponents(img, Components(path, <<>>), W(0, EXT4_ROOT_INO))

\* exists(path): a bool, unless the lookup does not return (lib.rs:428-430)
Exists(img, path) ==
    LET found == FindInodeByPath(img, path) IN
    IF Aborts(found) THEN found ELSE Ret(IsOk(found))

\* metadata(path): None or Some(Metadata) (lib.rs:432-447)
Metadata(img, path) ==
    LET found == FindInodeByPath(img, path) IN
    IF Aborts(found) THEN found
    ELSE IF ~IsOk(found) THEN Ret(None)
    ELSE LET inode == ReadInode(img, found[2]) IN
         IF ~IsOk(inode) THEN Ret(None)
         ELSE Ret(Some([is_file |-> ModeType(inode[2].i_mode) = S_IFREG,
                    is_dir  |-> ModeType(inode[2].i_mode) = S_IFDIR,
                    size    |-> FileSize(inode[2]),
                    mode    |-> inode[2].i_mode]))

RECURSIVE StrLess(_, _)
\* a < b for Strings: by code point, a proper prefix first
StrLess(a, b) ==
    IF b = <<>> THEN FALSE
    ELSE IF a = <<>> THEN TRUE
    ELSE IF a[1] # b[1] THEN a[1] < b[1]
    ELSE StrLess(Tail(a), Tail(b))

\* e placed behind the entries of the sorted list whose name is not greater
InsertByName(sorted, e) ==
    LET k == Cardinality({i \in 1..Len(sorted) : ~StrLess(e.name, sorted[i].name)}) IN
    SubSeq(sorted, 1, k) \o <<e>> \o SubSeq(sorted, k + 1, Len(sorted))

\* (mutant) the entries stay in record order
SortByKeyNone(entries) == entries

RECURSIVE SortByKey(_)
\* dir_entries.sort_by_key(|entry| entry.name.clone()): a stable sort (lib.rs:398)
SortByKey(entries) ==
    IF entries = <<>> THEN <<>>
    ELSE InsertByName(SortByKey(SubSeq(entries, 1, Len(entries) - 1)),
                      entries[Len(entries)])

DotName    == <<46>>
DotDotName == <<46, 46>>

\* The DirectoryEntry read_dir pushes for a record (lib.rs:366-395)
DirectoryEntryOf(img, path, entry) ==
    LET is_file == entry.file_type = EXT4_FT_REG_FILE
        inode   == ReadInode(img, entry.inode)
    IN  [name    |-> entry.name,
         path    |-> IF path = <<Slash>> THEN <<Slash>> \o entry.name
                     ELSE path \o <<Slash>> \o entry.name,
         is_file |-> is_file,
         is_dir  |-> entry.file_type = EXT4_FT_DIR,
         size    |-> IF is_file /\ IsOk(inode) THEN FileSize(inode[2]) ELSE U64Zero]

\* The loop of read_dir over the records: "." and ".." are skipped (lib.rs:364-396)
Listed(img, path, entries) ==
    LET kept == SelectSeq(entries, LAMBDA e : e.name # DotName /\ e.name # DotDotName) IN
    [k \in 1..Len(kept) |-> DirectoryEntryOf(img, path, kept[k])]

\* read_dir(path): Ok(entries of the iterator) or Err (lib.rs:349-404)
ReadDir(img, path) ==
    LET found == FindInodeByPath(img, path) IN
    IF ~IsOk(found) THEN found
    ELSE LET inode == ReadInode(img, found[2]) IN
         IF ~IsOk(inode) THEN inode
         ELSE IF ModeType(inode[2].i_mode) # S_IFDIR
         THEN Err("FileNotFound: not a directory")
         ELSE LET entries == ReadDirectoryEntries(img, inode[2]) IN
              IF ~IsOk(entries) THEN entries
              ELSE Ok(SortByKey(Listed(img, path, entries[2])))

----------------------------------------------------------------------------
(* The directory images of the model: one block group of InodesPerGroup inodes,
   directory blocks encoded record by record *)

DirBlockSize   == 40     \* block_size of the directory images, in bytes
MaxDirRecs     == 2      \* records drawn into the root directory's second block
InodesPerGroup == 8      \* s_inodes_per_group of the directory images

Zeros(n) == [k \in 1..n |-> 0]

\* The bytes of one record (structs.rs DirEntry layout: inode, rec_len,
\* name_len, file_type, name), padded with zeros up to rec_len.
RecBytes(inode, rec_len, name_len, file_type, name) ==
    <<inode[2] % 256, inode[2] \div 256, inode[1] % 256, inode[1] \div 256,
      rec_len % 256, rec_len \div 256, name_len, file_type>>
        \o name \o Zeros(rec_len - 8 - Len(name))

Rec(ino, name, file_type) == [inode |-> W(0, ino), name |-> name, file_type |-> file_type]

RECURSIVE RecsBytes(_, _)
\* Records laid out one after the other; the last one takes the rest of the block.
RecsBytes(recs, room) ==
    IF recs = <<>> THEN <<>>
    ELSE LET r       == Head(recs)
             rec_len == IF Len(recs) = 1 THEN room ELSE 8 + Len(r.name)
         IN  RecBytes(r.inode, rec_len, Len(r.name), r.file_type, r.name)
                 \o RecsBytes(Tail(recs), room - rec_len)

\* A well-formed directory block; without records it is one free slot.
DirBlock(recs) ==
    IF recs = <<>> THEN RecBytes(ZeroWord, DirBlockSize, 0, 0, <<>>)
    ELSE RecsBytes(recs, DirBlockSize)

\* A block that begins with the given bytes
Pad(bytes) == bytes \o Zeros(DirBlockSize - Len(bytes))

DirInode(size, ptrs) ==
    [i_mode |-> S_IFDIR + 493, size |-> U64FromInt(size), extents |-> FALSE,
     i_block |-> Direct(ptrs)]
RegInode(size) ==
    [i_mode |-> S_IFREG + 420, size |-> U64FromInt(size), extents |-> FALSE,
     i_block |-> Direct(<<>>)]

\* Inodes 1..7 can be read; 8 is a number of the group whose table entry lies
\* off the device; 9 and up are beyond the group.  2 is the root (blocks 10 and
\* 11), 3 the directory "m" (extent-mapped, block 12), 4 and 5 regular files,
\* 6 a symlink, 7 a directory whose block cannot be read.
InodeTable(root_size) ==
    <<RegInode(0),
      DirInode(root_size, <<10, 11>>),
      [i_mode |-> S_IFDIR + 493, size |-> U64FromInt(DirBlockSize), extents |-> TRUE,
       i_block |-> LeafWords(<<[len |-> 1, hi |-> 0, lo |-> W(0, 12)]>>, RootWords)],
      RegInode(5),
      RegInode(7),
      [i_mode |-> 41471, size |-> U64FromInt(3), extents |-> FALSE,
       i_block |-> Direct(<<>>)],
      DirInode(DirBlockSize, <<99>>)>>

RootBlock == DirBlock(<<Rec(2, DotName, 2), Rec(2, DotDotName, 2), Rec(3, <<109>>, 2)>>)
SubBlock  == DirBlock(<<Rec(3, DotName, 2), Rec(2, DotDotName, 2),
                        Rec(5, <<98>>, 1), Rec(4, <<97>>, 1)>>)

\* The records drawn into block 11: "a" twice (inodes 4 and 5), "z" naming an
\* inode beyond the group, the names 0xFE and 0xFF (the latter naming inode 8),
\* a free slot named "q", "k" naming inode 7, and "s" naming the symlink.
MenuRecs ==
    { Rec(4, <<97>>, 1), Rec(5, <<97>>, 1), Rec(9, <<122>>, 2), Rec(4, <<254>>, 1),
      Rec(8, <<255>>, 1), Rec(0, <<113>>, 1), Rec(7, <<107>>, 2), Rec(6, <<115>>, 7) }

DirImage(root_size, second, checks) ==
    [block_size |-> DirBlockSize, nodes |-> [b \in {} |-> <<>>],
     inodes_per_group |-> InodesPerGroup, groups |-> 1,
     inodes |-> InodeTable(root_size), overflow_checks |-> checks,
     blocks |-> [b \in {10, 11, 12} |->
                    IF b = 10 THEN RootBlock ELSE IF b = 11 THEN second ELSE SubBlock]]

\* Second blocks that break the record invariants: name_len beyond rec_len,
\* rec_len 0, rec_len below 8, rec_len below 8 with a name leaving the block,
\* and rec_len 4 followed at offset 4 by bytes that read as a record of 36 bytes.
BadBlocks ==
    { Pad(RecBytes(W(0, 4), 9, 2, 1, <<97, 98>>)),
      Pad(RecBytes(W(0, 4), 0, 1, 1, <<97>>)),
      Pad(RecBytes(W(0, 4), 4, 1, 1, <<97>>)),
      Pad(RecBytes(W(0, 4), 4, 255, 1, <<97>>)),
      Pad(RecBytes(W(0, 4), 4, 1, 1, <<36, 0, 1, 1, 98>>)) }

DirImages ==
    { DirImage(2 * DirBlockSize, DirBlock(recs), TRUE) :
          recs \in SeqsUpTo(MenuRecs, MaxDirRecs) }
    \cup { DirImage(2 * DirBlockSize, b, c) : b \in BadBlocks, c \in BOOLEAN }
    \cup { DirImage(19, DirBlock(<<Rec(4, <<97>>, 1)>>), TRUE),
           DirImage(DirBlockSize, DirBlock(<<Rec(4, <<97>>, 1)>>), TRUE),
           DirImage(DirBlockSize + 12,
                    DirBlock(<<Rec(4, <<97>>, 1), Rec(9, <<122>>, 2)>>), TRUE) }

\* "/", "", "/m", "//m", "/a", "/z", "/k", "/q", "/<U+FFFD>",
\* "/m/a", "/m/..", "/a/m", "/z/a", "/k/a", "/s"
Paths ==
    { <<47>>, <<>>, <<47, 109>>, <<47, 47, 109>>, <<47, 97>>,
      <<47, 122>>, <<47, 107>>, <<47, 113>>, <<47, 65533>>,
      <<47, 109, 47, 97>>, <<47, 109, 47, 46, 46>>, <<47, 97, 47, 109>>,
      <<47, 122, 47, 97>>, <<47, 107, 47, 97>>, <<47, 115>> }

----------------------------------------------------------------------------
(* The calls on a directory image *)

\* (mutant) the mode of the inode is not looked at
RegularModeAny(inode) == TRUE

\* (inode.i_mode & 0xF000) == 0x8000 (lib.rs:411)
RegularMode(inode) == ModeType(inode.i_mode) = S_IFREG

\* open(path): Ok(stream) or Err (lib.rs:406-426)
OpenFile(img, path) ==
    LET found == FindInodeByPath(img, path) IN
    IF ~IsOk(found) THEN found
    ELSE LET inode == ReadInode(img, found[2]) IN
         IF ~IsOk(inode) THEN inode
         ELSE IF ~RegularMode(inode[2])
         THEN Err("FileNotFound: is not a regular file")
         ELSE Ok([inode |-> inode[2], position |-> U64Zero, size |-> FileSize(inode[2])])

Unset == <<"unset">>

NoResults ==
    [exists |-> Unset, metadata |-> Unset, read_dir |-> Unset, find |-> Unset,
     open |-> Unset]

CallExists ==
    /\ dpath # None
    /\ dres' = [dres EXCEPT !.exists = Exists(fs, dpath[1])]
    /\ UNCHANGED <<fs, xret, streamVars, dpath>>
    /\ UNCHANGED <<vdiVars, sliceVars>>

CallMetadata ==
    /\ dpath # None
    /\ dres' = [dres EXCEPT !.metadata = Metadata(fs, dpath[1])]
    /\ UNCHANGED <<fs, xret, streamVars, dpath>>
    /\ UNCHANGED <<vdiVars, sliceVars>>

CallReadDir ==
    /\ dpath # None
    /\ dres' = [dres EXCEPT !.read_dir = ReadDir(fs, dpath[1])]
    /\ UNCHANGED <<fs, xret, streamVars, dpath>>
    /\ UNCHANGED <<vdiVars, sliceVars>>

CallFindInodeByPath ==
    /\ dpath # None
    /\ dres' = [dres EXCEPT !.find = FindInodeByPath(fs, dpath[1])]
    /\ UNCHANGED <<fs, xret, streamVars, dpath>>
    /\ UNCHANGED <<vdiVars, sliceVars>>

CallOpen ==
    /\ dpath # None
    /\ dres' = [dres EXCEPT !.open = OpenFile(fs, dpath[1])]
    /\ UNCHANGED <<fs, xret, streamVars, dpath>>
    /\ UNCHANGED <<vdiVars, sliceVars>>

\* A directory image and the path the caller asks about
DirInit ==
    /\ fs \in DirImages
    /\ xret = <<>>
    /\ NoStream
    /\ dpath \in {Some(p) : p \in Paths}
    /\ dres = NoResults
    /\ NoVdi
    /\ NoSlice

DirNext ==
    CallExists \/ CallMetadata \/ CallReadDir \/ CallFindInodeByPath \/ CallOpen

SpecDir == DirInit /\ [][DirNext]_vars

----------------------------------------------------------------------------
(* Claims about the VDI reader *)

Returned == pc = "done" /\ IsOk(ret)

\* The allocation-table entry of virtual offset p is past the table's end.
PastTable(p) == p >= file.blocks_in_image * file.block_size

\* The backing file offset the image gives virtual offset p (p inside the table,
\* its block allocated).
FileOffsetOf(p) ==
    file.data_offset + U32Val(file.table[(p \div file.block_size) + 1]) * file.block_size
        + (p % file.block_size)

Allocated(p) == ~PastTable(p) /\ file.table[(p \div file.block_size) + 1] # U32MAX

\* C1 as stated: read_at returns at most buf.len, and with a non-empty buf it
\* returns 0 only when pos >= header.disk_size.
C1_Original ==
    Returned =>
        /\ ret[2] <= call.len
        /\ (call.len > 0 /\ ret[2] = 0) => call.pos >= TheDisk.disk_size

\* C1 amended: read_at returns at most buf.len, and with a non-empty buf it
\* returns 0 only when pos is at or past the end of the allocation table
\* (pos >= blocks_in_image * block_size), or the block of pos is allocated and the
\* backing reader returned 0 for the one read made at its file offset.
C1_ReadAtCount ==
    Returned =>
        /\ ret[2] <= call.len
        /\ (call.len > 0 /\ ret[2] = 0) =>
              \/ PastTable(call.pos)
              \/ /\ Allocated(call.pos)
                 /\ Len(backing) = 1
                 /\ backing[1].n = 0
                 /\ backing[1].off = FileOffsetOf(call.pos)

\* C1 witness: a non-empty read inside disk_size returned 0 at the table's end.
C1_Witness ==
    /\ Returned
    /\ call.len > 0
    /\ ret[2] = 0
    /\ PastTable(call.pos)
    /\ call.pos < TheDisk.disk_size

\* C3: every returned byte whose virtual offset lies in a block whose table entry
\* is 0xFFFFFFFF is 0x00.
C3_HolesReadZero ==
    Returned =>
        \A i \in 1..ret[2] :
            file.table[((call.pos + i - 1) \div file.block_size) + 1] = U32MAX
                => buf[i] = ZeroByte

\* C3 witness: one read returned bytes of an allocated block, then of an
\* unallocated one, then of an allocated one again.
C3_Witness ==
    /\ Returned
    /\ ret[2] = 4
    /\ buf[1] > ZeroByte
    /\ buf[2] = ZeroByte
    /\ buf[3] = ZeroByte
    /\ buf[4] > ZeroByte

\* C9: open succeeds only on a header with the right signature, version and image
\* type; a header whose only defect is one of the three fails with that defect's
\* own message; no VdiDisk exists after a failure.
C9_OpenValidates ==
    /\ disk # None =>
          /\ file.signature = SIGNATURE
          /\ file.version = VERSION
          /\ file.image_type = 1
    /\ pc = "failed" =>
          /\ disk = None
          /\ IsErr(ret)
          /\ file.len >= HeaderSize =>
                /\ (file.version # VERSION /\ file.signature = SIGNATURE
                        /\ file.image_type = 1)
                      => ret = Err("Unsupported VDI version")
                /\ (file.version = VERSION /\ file.signature # SIGNATURE
                        /\ file.image_type = 1)
                      => ret = Err("Invalid VDI signature")
                /\ (file.version = VERSION /\ file.signature = SIGNATURE
                        /\ file.image_type # 1)
                      => ret = Err("Only dynamic VDI images are supported")
    /\ (pc # "closed" /\ disk = None) => pc = "failed"

\* C9 witness: open has refused an image whose only defect is image_type = 2.
C9_Witness ==
    /\ pc = "failed"
    /\ file.len >= HeaderSize
    /\ file.version = VERSION
    /\ file.signature = SIGNATURE
    /\ file.image_type = 2
    /\ ret = Err("Only dynamic VDI images are supported")

----------------------------------------------------------------------------
(* Claims about the slice *)

\* C10: with start <= end, read_at(pos, buf) returns 0 without touching the inner
\* disk when pos >= end - start; otherwise it issues exactly one inner read_at at
\* start + pos for min(buf.len, end - start - pos) bytes and returns its result,
\* so every byte returned lies below end.
C10_SliceReadAt ==
    (spc = "done" /\ TheSlice.start <= TheSlice.end) =>
        LET s == TheSlice
            c == scall[1]
        IN  IF c.pos >= s.end - s.start
            THEN sret = Ok(0) /\ inner = <<>>
            ELSE /\ inner = <<[pos |-> s.start + c.pos,
                               len |-> IF c.len <= s.end - s.start - c.pos
                                       THEN c.len ELSE s.end - s.start - c.pos]>>
                 /\ call = inner[1]
                 /\ sret = ret
                 /\ IsOk(sret) => s.start + c.pos + sret[2] <= s.end

\* C10 witness: a read that had to be clamped returned every byte up to end.
C10_Witness ==
    /\ spc = "done"
    /\ TheSlice.start > 0
    /\ scall[1].pos > 0
    /\ scall[1].len > TheSlice.end - TheSlice.start - scall[1].pos
    /\ IsOk(sret)
    /\ sret[2] > 1
    /\ TheSlice.start + scall[1].pos + sret[2] = TheSlice.end

----------------------------------------------------------------------------
(* Claims about the extent walker *)

RECURSIVE LeafExtentsOf(_)
\* The leaf extents reachable from the root of tree t, in stored order.
LeafExtentsOf(t) ==
    IF t.depth = 0 THEN t.exts
    ELSE IF t.kids = <<>> THEN <<>>
    ELSE LeafExtentsOf(t.kids[1]) \o LeafExtentsOf([t EXCEPT !.kids = Tail(t.kids)])

RECURSIVE SumOfLengths(_)
SumOfLengths(exts) == IF exts = <<>> THEN 0 ELSE exts[1].len + SumOfLengths(Tail(exts))

\* The k-th listed block belongs to leaf extent e as its j-th block.
RECURSIVE ListsInOrder(_, _)
ListsInOrder(blocks, exts) ==
    IF exts = <<>> THEN blocks = <<>>
    ELSE /\ Len(blocks) >= exts[1].len
         /\ \A j \in 1..exts[1].len :
               LET low == exts[1].lo[2] + (j - 1) IN
               blocks[j] = W((exts[1].lo[1] + low \div Half) % Half, low % Half)
         /\ ListsInOrder(SubSeq(blocks, exts[1].len + 1, Len(blocks)), Tail(exts))

\* C8: for a valid extent tree of any depth, read_extent_blocks returns a list
\* whose length is the sum of the length fields of the leaf extents reachable from
\* the root, and which lists each leaf extent's blocks (as the u32 block numbers
\* the walker keeps) consecutively, in the order the entries are stored.
C8_ExtentList ==
    (xret # <<>> /\ fs.tree # None) =>
        /\ IsOk(xret)
        /\ Len(xret[2]) = SumOfLengths(LeafExtentsOf(fs.tree[1]))
        /\ ListsInOrder(xret[2], LeafExtentsOf(fs.tree[1]))

\* C8 witness: a depth-2 tree with two leaf blocks was walked and leaf extents of
\* both leaves were listed.
C8_Witness ==
    /\ IsOk(xret)
    /\ fs.tree # None
    /\ fs.tree[1].depth = 2
    /\ Len(fs.tree[1].kids[1].kids) = 2
    /\ fs.tree[1].kids[1].kids[1].exts # <<>>
    /\ fs.tree[1].kids[1].kids[2].exts # <<>>
    /\ Len(xret[2]) = 4

----------------------------------------------------------------------------
(* Claims about the file stream *)

LastRead == fop # <<>> /\ fop.op = "read"

\* min(len, size - pos), and 0 from size on
Wanted(p, n, size) ==
    IF ~U64Less(p, size) THEN 0 ELSE MinLen(n, U64Sub(size, p))

\* C2 (as stated): every read(buf) that returns a count returns at most buf.len
\* bytes; it returns 0 (buf not empty) only at position >= size, and otherwise
\* min(buf.len, size - position) bytes, whatever the length of the block list.
C2_Original ==
    (LastRead /\ IsOk(fret)) =>
        /\ Len(fret[2]) <= fop.len
        /\ Len(fret[2]) = Wanted(fop.pos, fop.len, FileSize(fs.inode))

\* The blocks read_file_data_range walks for the inode of the image.
BlockListOf(img) ==
    IF img.inode.extents THEN ReadExtentBlocks(img.nodes, img.inode.i_block)
    ELSE Ok(DirectBlocks(img.inode.i_block, 0))

\* C2 (what the code does): a read serves min(buf.len, size - position) bytes
\* cut at the end of the block list, which may lie before size.
C2_ServesBlockList ==
    (LastRead /\ IsOk(fret)) =>
        LET covered == U64FromInt(Len(BlockListOf(fs)[2]) * fs.block_size) IN
        Len(fret[2]) = Min(Wanted(fop.pos, fop.len, FileSize(fs.inode)),
                           Wanted(fop.pos, fop.len, covered))

\* A read at a position before size that returned nothing into a buffer of 2.
C2_ShortRead ==
    /\ LastRead /\ fret = Ok(<<>>) /\ fop.len = 2
    /\ ~fs.inode.extents
    /\ fop.pos = U64FromInt(NDirect * fs.block_size)
    /\ FileSize(fs.inode) = U64FromInt((NDirect + 1) * fs.block_size)

\* The read of the whole file with a buffer of length size, on a fresh stream
\* (for a size a buffer can have).
WholeRead == StreamRead(fs, U64Zero, AsInt(FileSize(fs.inode)))

\* C4: on a stream that has only been read, once a read into a non-empty buffer
\* returns 0 the bytes returned so far, concatenated, are the bytes of one read
\* of the whole file with a buffer of length size; until then they are a prefix
\* of them (where that read succeeds).
C4_ChunkedEqualsWhole ==
    (mode = "seq" /\ FitsInt(FileSize(fs.inode))) =>
        /\ IsOk(WholeRead) =>
              /\ Len(acc) <= Len(WholeRead[2])
              /\ acc = SubSeq(WholeRead[2], 1, Len(acc))
        /\ (fop.len > 0 /\ fret = Ok(<<>>)) => WholeRead = Ok(acc)

\* Reads of 1..MaxFileBuf bytes ended with a 0; one began inside a block, and
\* the file's blocks are not contiguous (block 5 follows block 9 or 7).
C4_Witness ==
    /\ mode = "seq" /\ fop.len > 0 /\ fret = Ok(<<>>)
    /\ FitsInt(FileSize(fs.inode))
    /\ midblock
    /\ Len(acc) >= 3
    /\ acc[1][2] \in {7, 9} /\ acc[3][2] = 5

\* seek(Start(k)) then read(n) with k + n <= size, k the position of the read
SoughtRead ==
    /\ mode = "soughtread"
    /\ FitsInt(fop.pos)
    /\ ~U64Less(FileSize(fs.inode), U64FromInt(AsInt(fop.pos) + fop.len))

\* read(k + n) on a fresh stream, k the seek target and n the buffer length
FullRead == StreamRead(fs, U64Zero, AsInt(fop.pos) + fop.len)

\* C5 (as stated): for k + n <= size, seek(Start(k)) then read(n) on a fresh
\* stream returns the last n bytes of a fresh stream's read(k + n).
C5_Original ==
    (SoughtRead /\ IsOk(FullRead)) =>
        /\ IsOk(fret)
        /\ Len(FullRead[2]) >= fop.len
        /\ fret[2] = SubSeq(FullRead[2], Len(FullRead[2]) - fop.len + 1, Len(FullRead[2]))

\* C5 (what the code does): seek(Start(k)) then read(n) returns the bytes of
\* read(k + n) from index k on: none when read(k + n) returned k bytes or fewer.
C5_SuffixFromK ==
    (SoughtRead /\ IsOk(FullRead)) =>
        /\ IsOk(fret)
        /\ fret[2] = SubSeq(FullRead[2], AsInt(fop.pos) + 1, Len(FullRead[2]))

\* seek(Start(1)); read(2) on a file of size 3 with a block list of one block of
\* 2 bytes: one byte is returned.
C5_ShortFull ==
    /\ SoughtRead /\ fop.pos = U64FromInt(1) /\ fop.len = 2
    /\ FileSize(fs.inode) = U64FromInt(3)
    /\ IsOk(fret) /\ Len(fret[2]) = 1

LastSeek == fop # <<>> /\ fop.op = "seek"

\* base + offset for an i64 offset, in the integers: Some(target) when it lies
\* in [0, size], else None.
ExactOffset(size, base, offset) ==
    IF ~I64Negative(offset)
    THEN LET r == AddCarry(base, offset, 0) IN
         IF r.carry = 0 /\ ~U64Less(size, r.sum) THEN Some(r.sum) ELSE None
    ELSE IF U64Less(base, U64Neg(offset)) THEN None
    ELSE IF ~U64Less(size, U64Sub(base, U64Neg(offset)))
    THEN Some(U64Sub(base, U64Neg(offset))) ELSE None

\* The resolved target of seek(from) at position p, when it lies in [0, size]
ExactTarget(size, p, from) ==
    CASE from[1] = "Start"   -> IF ~U64Less(size, from[2]) THEN Some(from[2]) ELSE None
      [] from[1] = "End"     -> ExactOffset(size, size, from[2])
      [] from[1] = "Current" -> ExactOffset(size, p, from[2])

\* C11 (as stated): a seek succeeds exactly when its resolved target lies in
\* [0, size], then sets position to the target and returns it; otherwise it
\* returns an error and leaves position unchanged; position <= size throughout.
C11_Original ==
    /\ LastSeek =>
          LET t == ExactTarget(FileSize(fs.inode), fop.pos, fop.arg) IN
          IF t # None THEN fret = Ok(t[1]) /\ position = t[1]
          ELSE IsErr(fret) /\ position = fop.pos
    /\ mode # "none" => ~U64Less(FileSize(fs.inode), position)

\* C11 (what the code does): position <= size throughout, and a seek whose
\* arithmetic does not overflow (no offset i64::MIN, no sum of 2^64 or more)
\* behaves as stated.
C11_SeekWithoutOverflow ==
    /\ mode # "none" => ~U64Less(FileSize(fs.inode), position)
    /\ (LastSeek /\ fret # Panics
          /\ ~(fop.arg[1] = "End" /\ ~I64Negative(fop.arg[2])
                 /\ AddCarry(FileSize(fs.inode), fop.arg[2], 0).carry = 1)
          /\ ~(fop.arg[1] = "Current" /\ ~I64Negative(fop.arg[2])
                 /\ AddCarry(fop.pos, fop.arg[2], 0).carry = 1)) =>
          LET t == ExactTarget(FileSize(fs.inode), fop.pos, fop.arg) IN
          IF t # None THEN fret = Ok(t[1]) /\ position = t[1]
          ELSE IsErr(fret) /\ position = fop.pos

\* seek(End(i64::MIN)) on a file of 3 bytes, in a build with overflow checks:
\* the negation panics.
C11_NegatePanics ==
    /\ LastSeek /\ fop.arg = <<"End", I64MIN>>
    /\ FileSize(fs.inode) = U64FromInt(3)
    /\ fret = Panics

\* seek(End(i64::MAX)) on a file of declared size 2^63 + 1, in a build without
\* overflow checks: the sum 2^64 wraps and the seek returns position 0.
C11_WrapsToZero ==
    /\ LastSeek /\ fop.arg = <<"End", I64MAX>>
    /\ ~fs.overflow_checks
    /\ fret = Ok(U64Zero) /\ position = U64Zero

----------------------------------------------------------------------------
(* Claims about directories and paths *)

NoDots(es) == \A i \in 1..Len(es) : es[i].name # DotName /\ es[i].name # DotDotName

\* C6 (as stated): the entries of a successful read_dir are strictly ascending
\* by name, so no name appears twice, and none is named "." or "..".
C6_Original ==
    IsOk(dres.read_dir) =>
        LET es == dres.read_dir[2] IN
        /\ \A i \in 1..(Len(es) - 1) : StrLess(es[i].name, es[i + 1].name)
        /\ NoDots(es)

\* C6 (amended): the entries of a successful read_dir are ascending by name (no
\* name is greater than the next; equal names stay next to each other, one entry
\* per record), and none is named "." or "..".
C6_Ascending ==
    IsOk(dres.read_dir) =>
        LET es == dres.read_dir[2] IN
        /\ \A i \in 1..(Len(es) - 1) : ~StrLess(es[i + 1].name, es[i].name)
        /\ NoDots(es)

\* The root listed as "a", "a", "m": "m" is the record read first, and both
\* records named "a" are emitted.
C6_Witness ==
    /\ IsOk(dres.read_dir)
    /\ Len(dres.read_dir[2]) = 3
    /\ dres.read_dir[2][1].name = <<97>>
    /\ dres.read_dir[2][2].name = <<97>>
    /\ dres.read_dir[2][3].name = <<109>>

\* C7 (as stated): exists(p) is true exactly when find_inode_by_path(p)
\* succeeds, and metadata(p) is Some exactly when exists(p) is true.
C7_Original ==
    /\ (IsRet(dres.exists) /\ (IsOk(dres.find) \/ IsErr(dres.find))) =>
            (dres.exists[2] <=> IsOk(dres.find))
    /\ (IsRet(dres.exists) /\ IsRet(dres.metadata)) =>
            (dres.metadata[2] # None <=> dres.exists[2])

\* C7 (what the code does): metadata(p) is Some exactly when the lookup succeeds
\* and read_inode can read the inode it resolved to.
C7_MetadataReadsInode ==
    (IsRet(dres.metadata) /\ (IsOk(dres.find) \/ IsErr(dres.find))) =>
        (dres.metadata[2] # None <=>
            (IsOk(dres.find) /\ IsOk(ReadInode(fs, dres.find[2]))))

\* "/z" resolves to inode 9, which read_inode rejects: exists is true and
\* metadata is None.
C7_Dangling ==
    /\ dpath = Some(<<47, 122>>)
    /\ dres.exists = Ret(TRUE)
    /\ dres.metadata = Ret(None)
    /\ dres.find = Ok(W(0, 9))

\* The errors displayed as "File not found: ..."
FileNotFound ==
    { Err("FileNotFound: path not found"),
      Err("FileNotFound: path component is not a directory"),
      Err("FileNotFound: not a directory"),
      Err("FileNotFound: is not a regular file") }

OpenCalled == dres.open # Unset

\* The lookup of the path and the inode it resolves to
Resolved      == FindInodeByPath(fs, dpath[1])
ResolvedInode == ReadInode(fs, Resolved[2])

\* C12 (as stated): open returns a stream only for a path that resolves to a
\* regular inode, with position 0 and the inode's size; a path that does not
\* resolve fails with a "File not found" error, and one that resolves to an
\* inode that is not regular fails with "is not a regular file".
C12_Original ==
    OpenCalled =>
        /\ IsOk(dres.open) =>
              /\ IsOk(Resolved) /\ IsOk(ResolvedInode)
              /\ ModeType(ResolvedInode[2].i_mode) = S_IFREG
              /\ dres.open[2].position = U64Zero
              /\ dres.open[2].size = FileSize(ResolvedInode[2])
        /\ ~IsOk(Resolved) => dres.open \in FileNotFound
        /\ (IsOk(Resolved) /\ IsOk(ResolvedInode)
              /\ ModeType(ResolvedInode[2].i_mode) # S_IFREG) =>
              dres.open = Err("FileNotFound: is not a regular file")

\* C12 (amended): as stated, but a path does not resolve with a "File not
\* found" error only when a component names no entry or is looked up in a
\* non-directory; when the lookup or the read of the resolved inode fails
\* otherwise (invalid inode number, I/O error, malformed directory record) open
\* fails with that error, and it panics where the lookup panics.
C12_OpenErrors ==
    OpenCalled =>
        /\ IsOk(dres.open) =>
              /\ IsOk(Resolved) /\ IsOk(ResolvedInode)
              /\ ModeType(ResolvedInode[2].i_mode) = S_IFREG
              /\ dres.open[2].position = U64Zero
              /\ dres.open[2].size = FileSize(ResolvedInode[2])
        /\ ~IsOk(Resolved) =>
              /\ dres.open = Resolved
              /\ dres.open \in FileNotFound <=>
                    Resolved \in {Err("FileNotFound: path not found"),
                                  Err("FileNotFound: path component is not a directory")}
        /\ (IsOk(Resolved) /\ ~IsOk(ResolvedInode)) => dres.open = ResolvedInode
        /\ (IsOk(Resolved) /\ IsOk(ResolvedInode)
              /\ ModeType(ResolvedInode[2].i_mode) # S_IFREG) =>
              dres.open = Err("FileNotFound: is not a regular file")

\* open("/s") on a root that lists the symlink "s": "is not a regular file"
C12_Witness ==
    /\ dpath = Some(<<47, 115>>)
    /\ dres.open = Err("FileNotFound: is not a regular file")
    /\ dres.find = Ok(W(0, 6))

\* The virtual offsets read_at was asked for, and the blocks they lie in
AskedOffsets == {call.pos + i : i \in 0..(call.len - 1)}
BlocksTouched == {q \div file.block_size : q \in AskedOffsets}
AllocatedTouched == {q \div file.block_size : q \in {o \in AskedOffsets : Allocated(o)}}

\* C13 (as stated): a read_at issues at most as many backing reads as the range
\* [pos, pos + buf.len) touches virtual blocks, and none for unallocated blocks,
\* also when the backing reader returns fewer bytes than requested.
C13_Original ==
    (pc = "done" /\ file.block_size # 0) =>
        /\ Len(backing) <= Cardinality(BlocksTouched)
        /\ Len(backing) <= Cardinality(AllocatedTouched)

\* C13 (amended): every backing read of a read_at starts at the file offset of
\* an asked-for offset of an allocated block and stays inside that block and
\* the buffer; every backing read but the last returns at least one byte, so
\* there are at most as many as asked-for bytes in allocated blocks; and when
\* each backing read returns all it was asked for, there is at most one per
\* allocated block touched.
C13_BackingReads ==
    (pc = "done" /\ file.block_size # 0) =>
        /\ \A i \in 1..Len(backing) :
              \E q \in AskedOffsets :
                 /\ Allocated(q)
                 /\ backing[i].off = FileOffsetOf(q)
                 /\ backing[i].len >= 1
                 /\ backing[i].len <= file.block_size - (q % file.block_size)
                 /\ backing[i].len <= call.pos + call.len - q
        /\ \A i \in 1..(Len(backing) - 1) : backing[i].n >= 1
        /\ Len(backing) <= Cardinality({o \in AskedOffsets : Allocated(o)})
        /\ (\A i \in 1..Len(backing) : backing[i].n = backing[i].len) =>
              Len(backing) <= Cardinality(AllocatedTouched)

\* C13 witness: a read of one whole block took two backing reads, the first of
\* them short.
C13_ShortBacking ==
    /\ Returned
    /\ Cardinality(BlocksTouched) = 1
    /\ Len(backing) = 2
    /\ backing[1].n < backing[1].len
    /\ backing[2].off = backing[1].off + backing[1].n
    /\ ret[2] = call.len

\* The non-empty components of a path: its maximal runs without a slash, in order
PieceStarts(path) ==
    {i \in 1..Len(path) : path[i] # Slash /\ (i = 1 \/ path[i - 1] = Slash)}
PieceEnd(path, i) ==
    CHOOSE j \in i..Len(path) :
        /\ \A k \in i..j : path[k] # Slash
        /\ j = Len(path) \/ path[j + 1] = Slash
NthStart(path, n) ==
    CHOOSE i \in PieceStarts(path) :
        Cardinality({j \in PieceStarts(path) : j < i}) = n - 1
Pieces(path) ==
    [n \in 1..Cardinality(PieceStarts(path)) |->
        SubSeq(path, NthStart(path, n), PieceEnd(path, NthStart(path, n)))]

\* The inode number the first entry named piece carries in the directory ino:
\* None unless ino is a readable inode of directory mode whose entries can be
\* read and hold one of that name.
EntryNamed(img, ino, piece) ==
    LET inode == ReadInode(img, ino) IN
    IF ~IsOk(inode) THEN None
    ELSE IF ModeType(inode[2].i_mode) # S_IFDIR THEN None
    ELSE LET entries == ReadDirectoryEntries(img, inode[2]) IN
         IF ~IsOk(entries) THEN None
         ELSE LET named == {i \in 1..Len(entries[2]) : entries[2][i].name = piece} IN
              IF named = {} THEN None
              ELSE Some(entries[2][CHOOSE i \in named : \A j \in named : i <= j].inode)

RECURSIVE Reached(_, _, _)
\* The inode reached from the root after the first j pieces, or None
Reached(img, pieces, j) ==
    IF j = 0 THEN Some(W(0, EXT4_ROOT_INO))
    ELSE LET before == Reached(img, pieces, j - 1) IN
         IF before = None THEN None ELSE EntryNamed(img, before[1], pieces[j])

C14_NotADirectory ==
    /\ dpath = Some(<<47, 97, 47, 109>>)
    /\ dres.find = Err("FileNotFound: path component is not a directory")

\* The record at offset o of a block breaks one of the record invariants
Malformed(block, o) ==
    \/ U16At(block, o + 4) = 0
    \/ U16At(block, o + 4) > Len(block) - o
    \/ block[o + 7] + 8 > U16At(block, o + 4)

\* The second block of the root directory starts with a malformed record
\* (the records of its first block are well formed).
RootMalformed == Malformed(fs.blocks[11], 0)

\* C15 (as stated): a record with rec_len = 0, rec_len beyond the block, or
\* name_len + 8 > rec_len (so every rec_len from 1 to 7) makes the scan fail
\* with InvalidDirectoryEntry: the listing of the directory and every lookup in
\* it return that error, never a panic and never entries.
C15_Original ==
    RootMalformed =>
        /\ (dres.read_dir # Unset /\ dpath = Some(<<Slash>>)) =>
              dres.read_dir = Err("InvalidDirectoryEntry")
        /\ (dres.find # Unset /\ Pieces(dpath[1]) # <<>>) =>
              dres.find = Err("InvalidDirectoryEntry")

\* What holds: the error is returned when rec_len is 0, greater than the rest
\* of the block, or at least 8 and smaller than name_len + 8.
C15_FromEight ==
    (RootMalformed /\ U16At(fs.blocks[11], 4) \notin 1..7) =>
        /\ (dres.read_dir # Unset /\ dpath = Some(<<Slash>>)) =>
              dres.read_dir = Err("InvalidDirectoryEntry")
        /\ (dres.find # Unset /\ Pieces(dpath[1]) # <<>>) =>
              dres.find = Err("InvalidDirectoryEntry")

\* A record with rec_len = 4 in a build with overflow checks: read_dir("/")
\* panics in rec_len - 8.
C15_Panics ==
    /\ U16At(fs.blocks[11], 4) = 4
    /\ fs.overflow_checks
    /\ dpath = Some(<<Slash>>)
    /\ dres.read_dir = Panics

\* The same record in a build without overflow checks: the subtraction wraps,
\* the record is accepted, and the listing succeeds with entries decoded from
\* offsets 0 and 4.
C15_Accepted ==
    /\ U16At(fs.blocks[11], 4) = 4
    /\ ~fs.overflow_checks
    /\ dpath = Some(<<Slash>>)
    /\ IsOk(dres.read_dir)
    /\ \E i \in 1..Len(dres.read_dir[2]) : dres.read_dir[2][i].name = <<36>>

\* The declared size of the root directory
RootSize == AsInt(fs.inodes[EXT4_ROOT_INO].size)

\* The entries of the root directory's two blocks that begin before the
\* declared size, counted from the start of the directory: the scan of the
\* second block stops RootSize - DirBlockSize bytes into it.
WithinSize ==
    LET first == DirBlockLoop(fs, fs.blocks[10], U64FromInt(RootSize), 0, <<>>) IN
    IF ~IsOk(first) THEN first
    ELSE DirBlockLoop(fs, fs.blocks[11],
             U64FromInt(IF RootSize > DirBlockSize THEN RootSize - DirBlockSize ELSE 0),
             0, first[2])

NamesOf(entries) == {entries[i].name : i \in 1..Len(entries)}

\* C16 (as stated): the scan of a directory stops when the bytes consumed over
\* all of its blocks reach i_size: read_dir("/") lists the names of the records
\* that begin before the declared size, and no other.
C16_Original ==
    (dpath = Some(<<Slash>>) /\ IsOk(dres.read_dir) /\ IsOk(WithinSize)) =>
        NamesOf(dres.read_dir[2]) = NamesOf(WithinSize[2]) \ {DotName, DotDotName}

\* The root declares 19 bytes: the record "a" at offset 0 of its second block,
\* 40 bytes into the directory, is listed.
C16_BeyondSize ==
    /\ RootSize = 19
    /\ dpath = Some(<<Slash>>)
    /\ IsOk(dres.read_dir)
    /\ <<97>> \in NamesOf(dres.read_dir[2])
    /\ <<109>> \notin NamesOf(dres.read_dir[2])

\* Block b holds an index node one of whose entries points at b itself
PointsAtItself(b) ==
    /\ b \in DOMAIN fs.nodes
    /\ At(fs.nodes[b], 0)[2] = ExtMagic
    /\ At(fs.nodes[b], 1)[1] > 0
    /\ \E i \in 0..(At(fs.nodes[b], 0)[1] - 1) :
          /\ 3 + i * 3 + 2 < Len(fs.nodes[b])
          /\ At(fs.nodes[b], 3 + i * 3 + 2)[2] = 0
          /\ At(fs.nodes[b], 3 + i * 3 + 1) = W(0, b)

\* C17 (as stated): read_extent_blocks terminates on every image, also on one
\* where a block's index entry points back at the block: the call returns a
\* list or an error.
C17_Original == xret # <<>> => (IsOk(xret) \/ IsErr(xret))

\* What holds: on the images that are valid trees the call returns a list, and
\* on the others without a block that points at itself it returns an error.
C17_ReturnsWithoutCycle ==
    (xret # <<>> /\ ~\E b \in DOMAIN fs.nodes : PointsAtItself(b)) =>
        /\ IsOk(xret) \/ IsErr(xret)
        /\ fs.tree # None => IsOk(xret)

\* The root's index entry leads to a block of depth 2 that points at itself:
\* every call reads the same block and recurses again.
C17_SelfPointing ==
    /\ PointsAtItself(KidBlock)
    /\ At(fs.root, 3 + 1) = W(0, KidBlock)
    /\ xret = Diverges

\* (physical_hi << 32 | physical_lo) + j as <<bits 32..47, low u32>>
Block48(e, j) ==
    LET low  == e.lo[2] + j
        high == e.lo[1] + low \div Half
    IN  <<e.hi + high \div Half, W(high % Half, low % Half)>>

\* The listed blocks are, extent by extent, the 48-bit numbers of the extents.
RECURSIVE Lists48(_, _)
Lists48(blocks, exts) ==
    IF exts = <<>> THEN blocks = <<>>
    ELSE /\ Len(blocks) >= exts[1].len
         /\ \A j \in 1..exts[1].len : <<0, blocks[j]>> = Block48(exts[1], j - 1)
         /\ Lists48(SubSeq(blocks, exts[1].len + 1, Len(blocks)), Tail(exts))

\* C18 (as stated): for every depth-0 extent the walker appends exactly the
\* block numbers (physical_hi << 32 | physical_lo) + j, j = 0 .. length - 1, in
\* order, the 48-bit value preserved also for physical_hi # 0 and for runs
\* that cross a multiple of 2^32.
C18_Original ==
    (xret # <<>> /\ fs.tree # None) =>
        /\ IsOk(xret)
        /\ Lists48(xret[2], LeafExtentsOf(fs.tree[1]))

\* What holds: the listed numbers are the claimed ones when no block of any
\* extent reaches 2^32.
C18_Below32Bits ==
    (xret # <<>> /\ fs.tree # None
        /\ \A i \in 1..Len(LeafExtentsOf(fs.tree[1])) :
              LET e == LeafExtentsOf(fs.tree[1])[i] IN
              e.len > 0 => Block48(e, e.len - 1)[1] = 0) =>
        /\ IsOk(xret)
        /\ Lists48(xret[2], LeafExtentsOf(fs.tree[1]))

\* The root's one extent is {length 2, physical_hi 1, physical_lo 0xFFFFFFFF}:
\* the blocks 0x1FFFFFFFF and 0x200000000 are listed as 0xFFFFFFFF and 0.
C18_Truncated ==
    /\ fs.tree # None
    /\ fs.tree[1] = Leaf(<<[len |-> 2, hi |-> 1, lo |-> W(65535, 65535)]>>)
    /\ xret = Ok(<<W(65535, 65535), W(0, 0)>>)

----------------------------------------------------------------------------
(* Claims about the cursored slice *)

\* The position a seek asks for, counted from the start of the range
SeekTargetOf(s, old, from) ==
    IF from[1] = "Start" THEN from[2]
    ELSE IF from[1] = "End" THEN s.end - s.start + from[2]
    ELSE old + from[2]

\* C19 (as stated): over [start, end) with 0 < start <= end, the cursor stays
\* within [0, end - start] whatever reads and seeks are made, no cursored read
\* returns a byte at an underlying offset >= end, and a seek whose target lies
\* outside [0, end - start] returns an error and leaves the cursor unchanged.
C19_Original ==
    (slice # None /\ 0 < TheSlice.start /\ TheSlice.start <= TheSlice.end) =>
        /\ TheSlice.pos >= 0
        /\ TheSlice.pos <= TheSlice.end - TheSlice.start
        /\ (spc = "read_done" /\ IsOk(sret) /\ sret[2] > 0) =>
              TheSlice.start + scall[1].pos + sret[2] <= TheSlice.end
        /\ (spc = "seek_done"
              /\ SeekTargetOf(TheSlice, scall[1].pos, scall[1].from)
                     \notin 0..(TheSlice.end - TheSlice.start)) =>
              /\ IsErr(sret)
              /\ TheSlice.pos = scall[1].pos
        /\ spc = "panic" => pc = "panic"

\* What holds: a seek that returns Ok(p) has set the cursor to its target p,
\* with p <= range.end; one that returns an error has left the cursor alone.
C19_SeekBelowEnd ==
    (slice # None /\ spc = "seek_done") =>
        IF IsOk(sret)
        THEN /\ sret[2] = SeekTargetOf(TheSlice, scall[1].pos, scall[1].from)
             /\ TheSlice.pos = sret[2]
             /\ sret[2] \in 0..TheSlice.end
        ELSE TheSlice.pos = scall[1].pos

\* seek(Start(end)) on a slice with start > 0 succeeds and leaves the cursor at
\* end, beyond end - start.
C19_SeekPastLen ==
    /\ slice # None
    /\ spc = "seek_done"
    /\ TheSlice.start > 0
    /\ TheSlice.start <= TheSlice.end
    /\ scall[1].from = <<"Start", TheSlice.end>>
    /\ sret = Ok(TheSlice.end)
    /\ TheSlice.pos > TheSlice.end - TheSlice.start

\* A read through a slice that ends inside the disk returned bytes beyond end.
C19_ReadPastEnd ==
    /\ slice # None
    /\ spc = "read_done"
    /\ TheSlice.start > 0
    /\ TheSlice.start <= TheSlice.end
    /\ scall[1].pos = 0
    /\ IsOk(sret)
    /\ TheSlice.start + sret[2] > TheSlice.end
    /\ buf[sret[2]] > ZeroByte

====
